---------------------------- MODULE Spec2Model ----------------------------
(***************************************************************************)
(* A model of clue-factory's mechanical validators (src/mechanic.py) and   *)
(* of the Ximenean auditor (src/auditor.py).                               *)
(*                                                                         *)
(* Text is modelled character by character: a Python str is a sequence of  *)
(* one-character strings, so that normalisation, case folding, substring   *)
(* search, whitespace splitting and the regular expressions of the source  *)
(* are computed, not assumed.                                              *)
(***************************************************************************)
EXTENDS Integers, Sequences, FiniteSets, TLC

VARIABLES
    pc,           \* "ready" before the call, "done" after it
    op,           \* the function that is called
    enchant_dict, \* the dictionary backend loaded at import / construction
    args,         \* the arguments of the call
    result        \* what the call returned (or the exception it raised)

vars == <<pc, op, enchant_dict, args, result>>

-----------------------------------------------------------------------------
(* Characters and Python's str primitives                                  *)

Lowers == <<"a","b","c","d","e","f","g","h","i","j","k","l","m",
            "n","o","p","q","r","s","t","u","v","w","x","y","z">>
Uppers == <<"A","B","C","D","E","F","G","H","I","J","K","L","M",
            "N","O","P","Q","R","S","T","U","V","W","X","Y","Z">>
Digits == {"0","1","2","3","4","5","6","7","8","9"}

LowerSet == {Lowers[i] : i \in DOMAIN Lowers}
UpperSet == {Uppers[i] : i \in DOMAIN Uppers}

ToLower == [c \in UpperSet |-> Lowers[CHOOSE i \in DOMAIN Uppers : Uppers[i] = c]]
ToUpper == [c \in LowerSet |-> Uppers[CHOOSE i \in DOMAIN Lowers : Lowers[i] = c]]
OrdLower == [c \in LowerSet |-> CHOOSE i \in DOMAIN Lowers : Lowers[i] = c]

IsLetter(c) == c \in LowerSet \/ c \in UpperSet
\* \w of Python's re on str: letters, digits and the underscore
IsWordChar(c) == IsLetter(c) \/ c \in Digits \/ c = "_"
\* the characters str.split() and str.strip() treat as whitespace
IsSpace(c) == c \in {" ", "\n", "\t"}

lowerc(c) == IF c \in UpperSet THEN ToLower[c] ELSE c
upperc(c) == IF c \in LowerSet THEN ToUpper[c] ELSE c
\* str.lower() / str.upper()
lower(s) == [i \in DOMAIN s |-> lowerc(s[i])]
upper(s) == [i \in DOMAIN s |-> upperc(s[i])]

Range(s) == {s[i] : i \in DOMAIN s}

\* a in b, for two strs
IsSubstring(a, b) ==
    \E i \in 0..(Len(b) - Len(a)) : SubSeq(b, i + 1, i + Len(a)) = a

\* b.find(a): the 0-based index of the first occurrence, or -1
Find(a, b) ==
    IF IsSubstring(a, b)
    THEN CHOOSE i \in 0..(Len(b) - Len(a)) :
            /\ SubSeq(b, i + 1, i + Len(a)) = a
            /\ \A j \in 0..(i - 1) : SubSeq(b, j + 1, j + Len(a)) # a
    ELSE -1

\* s.endswith(t)
EndsWith(s, t) == Len(s) >= Len(t) /\ SubSeq(s, Len(s) - Len(t) + 1, Len(s)) = t
\* s.startswith(t)
StartsWith(s, t) == Len(s) >= Len(t) /\ SubSeq(s, 1, Len(t)) = t

\* the maximal runs of characters satisfying P, left to right
Runs(s, P(_)) ==
    LET starts == {i \in 1..Len(s) : P(s[i]) /\ (i = 1 \/ ~P(s[i - 1]))}
        EndOf(i) == CHOOSE j \in i..Len(s) :
                        /\ \A k \in i..j : P(s[k])
                        /\ (j = Len(s) \/ ~P(s[j + 1]))
        Start(k) == CHOOSE i \in starts : Cardinality({x \in starts : x < i}) = k - 1
    IN  [k \in 1..Cardinality(starts) |-> SubSeq(s, Start(k), EndOf(Start(k)))]

NotSpace(c) == ~IsSpace(c)
\* str.split() with no argument
Split(s) == Runs(s, NotSpace)

\* str.strip()
Strip(s) ==
    LET keep == {i \in 1..Len(s) : ~IsSpace(s[i])}
    IN  IF keep = {} THEN <<>>
        ELSE SubSeq(s, CHOOSE i \in keep : \A j \in keep : i <= j,
                       CHOOSE i \in keep : \A j \in keep : i >= j)

\* s[::-1]
Reverse(s) == [i \in DOMAIN s |-> s[Len(s) + 1 - i]]

\* sep.join(parts)
RECURSIVE Join(_, _)
Join(sep, parts) ==
    IF Len(parts) = 0 THEN <<>>
    ELSE IF Len(parts) = 1 THEN parts[1]
    ELSE parts[1] \o sep \o Join(sep, Tail(parts))

\* sorted(s) for a str of lower-case letters
Sorted(s) ==
    LET Less(c) == Cardinality({i \in DOMAIN s : OrdLower[s[i]] < OrdLower[c]})
        Same(c) == Cardinality({i \in DOMAIN s : s[i] = c})
    IN  [k \in DOMAIN s |-> CHOOSE c \in Range(s) : Less(c) < k /\ k <= Less(c) + Same(c)]


\* the elements of s at the indices satisfying Keep, in order
FilterIdx(s, Keep(_)) ==
    LET idx == {i \in DOMAIN s : Keep(i)}
        Nth(k) == CHOOSE i \in idx : Cardinality({x \in idx : x < i}) = k - 1
    IN  [k \in 1..Cardinality(idx) |-> s[Nth(k)]]

\* collections.Counter(s)[c]
Count(s, c) == Cardinality({i \in DOMAIN s : s[i] = c})

\* int(s) for a run of decimal digits
DigitVal(c) == CASE c = "0" -> 0 [] c = "1" -> 1 [] c = "2" -> 2 [] c = "3" -> 3
                 [] c = "4" -> 4 [] c = "5" -> 5 [] c = "6" -> 6 [] c = "7" -> 7
                 [] c = "8" -> 8 [] c = "9" -> 9
RECURSIVE ParseInt(_)
ParseInt(s) ==
    IF Len(s) = 0 THEN 0
    ELSE 10 * ParseInt(SubSeq(s, 1, Len(s) - 1)) + DigitVal(s[Len(s)])

RECURSIVE SumSeq(_)
SumSeq(s) == IF Len(s) = 0 THEN 0 ELSE s[1] + SumSeq(Tail(s))

-----------------------------------------------------------------------------
(* JSON values of a clue record, as json.loads and dict literals give them *)

JStr(s) == [t |-> "str", v |-> s]
JNull == [t |-> "null", v |-> <<>>]
JAbsent == [t |-> "absent", v |-> <<>>]
JList(l) == [t |-> "list", v |-> l]
JDict(d) == [t |-> "dict", v |-> d]

\* d.get(key, default), for the value j stored under key (JAbsent: no such key)
Get(j, default) == IF j.t = "absent" THEN default ELSE j

\* bool(x)
Truthy(j) ==
    CASE j.t = "str" -> Len(j.v) > 0
      [] j.t = "list" -> Len(j.v) > 0
      [] j.t = "dict" -> \E k \in DOMAIN j.v : j.v[k].t # "absent"
      [] OTHER -> FALSE

\* the keys a wordplay_parts mapping may hold
NoParts == [fodder |-> JAbsent, indicator |-> JAbsent, mechanism |-> JAbsent,
            parts |-> JAbsent, outer |-> JAbsent, inner |-> JAbsent, word |-> JAbsent]
EmptyDict == JDict(NoParts)

-----------------------------------------------------------------------------
(* src/mechanic.py                                                         *)

ValidationResult(is_valid, message, details) ==
    [kind |-> "ValidationResult", is_valid |-> is_valid,
     message |-> message, details |-> details]

\* an exception leaving the function
Raise(exc) == [kind |-> "raise", exc |-> exc]

NoDetails == [none |-> TRUE]

normalize_text(text) == lower(SelectSeq(text, IsLetter))

identity_variants(answer, normalized_answer) ==
    IF Len(answer) > 3
    THEN <<normalized_answer \o <<"s">>,
           normalized_answer \o <<"e", "d">>,
           normalized_answer \o <<"i", "n", "g">>>>
         \o (IF EndsWith(normalized_answer, <<"e">>)
             THEN <<SubSeq(normalized_answer, 1, Len(normalized_answer) - 1) \o <<"e", "d">>,
                    SubSeq(normalized_answer, 1, Len(normalized_answer) - 1) \o <<"i", "n", "g">>>>
             ELSE <<>>)
    ELSE <<>>

check_identity_constraint(fodder, answer) ==
    LET normalized_fodder == normalize_text(fodder)
        normalized_answer == normalize_text(answer)
        variants == identity_variants(answer, normalized_answer)
        hits == {i \in DOMAIN variants : IsSubstring(variants[i], normalized_fodder)}
    IN  IF IsSubstring(normalized_answer, normalized_fodder)
        THEN ValidationResult(FALSE, "Identity constraint violated: answer appears in fodder",
                              [fodder |-> fodder, answer |-> answer])
        ELSE IF hits # {}
        THEN ValidationResult(FALSE, "Identity constraint violated: answer variant appears in fodder",
                              [fodder |-> fodder, answer |-> answer,
                               variant |-> variants[CHOOSE i \in hits : \A j \in hits : i <= j]])
        ELSE ValidationResult(TRUE, "Identity constraint satisfied: answer not in fodder",
                              [fodder |-> fodder, answer |-> answer])

\* enumeration: JNull (None) or a JStr
validate_length(answer, enumeration) ==
    IF ~Truthy(enumeration)
    THEN ValidationResult(TRUE, "No enumeration provided to check", NoDetails)
    ELSE LET IsDigit(c) == c \in Digits
             numbers == Runs(enumeration.v, IsDigit)
             expected_length == SumSeq([i \in DOMAIN numbers |-> ParseInt(numbers[i])])
             actual_length == Len(normalize_text(answer))
         IN  IF Len(numbers) = 0
             THEN ValidationResult(FALSE, "Invalid enumeration format", NoDetails)
             ELSE IF actual_length = expected_length
             THEN ValidationResult(TRUE, "Length matches", NoDetails)
             ELSE ValidationResult(FALSE, "Length mismatch",
                                   [expected |-> expected_length, actual |-> actual_length])

\* _enchant_dict.check(word): the loaded backend accepts exactly its word list
enchant_check(dict, word) == word \in dict.words

valid_abbreviations == {<<"n">>, <<"s">>, <<"e">>, <<"w">>, <<"l">>, <<"r">>, <<"u">>,
                        <<"o">>, <<"e", "r">>, <<"e", "d">>, <<"r", "e">>}

\* the fodder tokens the real-word check of validate_anagram rejects
anagram_invalid_words(dict, fodder) ==
    LET words == Split(lower(fodder))
    IN  FilterIdx(words, LAMBDA i : /\ ~(Len(words[i]) <= 2 /\ words[i] \in valid_abbreviations)
                                    /\ ~enchant_check(dict, words[i]))

\* validate_anagram as it would be with the identity check left out
validate_anagram_without_identity_check(dict, fodder, answer) ==
    LET invalid_words == IF dict.loaded THEN anagram_invalid_words(dict, fodder) ELSE <<>>
        normalized_fodder == normalize_text(fodder)
        normalized_answer == normalize_text(answer)
    IN  IF Len(invalid_words) > 0
        THEN ValidationResult(FALSE, "Fodder contains non-dictionary words",
                              [invalid_words |-> invalid_words, fodder |-> fodder])
        ELSE IF Sorted(normalized_fodder) = Sorted(normalized_answer)
        THEN ValidationResult(TRUE, "Valid anagram",
                              [fodder |-> normalized_fodder, answer |-> normalized_answer])
        ELSE ValidationResult(FALSE, "Invalid anagram: fodder letters do not exactly match answer letters",
                              NoDetails)

\* the letters Counter(a) holds beyond Counter(b): the loop over Counter(a).items() takes
\* the letters in the order in which a first holds them and extends the list with each
\* letter as many times as a holds it more often than b
counter_excess(a, b) ==
    LET letters == FilterIdx(a, LAMBDA i : \A j \in 1..(i - 1) : a[j] # a[i])
        excess(c) == IF Count(a, c) > Count(b, c) THEN Count(a, c) - Count(b, c) ELSE 0
    IN  Join(<<>>, [k \in DOMAIN letters |-> [n \in 1..excess(letters[k]) |-> letters[k]]])

validate_anagram(dict, fodder, answer) ==
    LET identity_check == check_identity_constraint(fodder, answer)
        invalid_words == IF dict.loaded THEN anagram_invalid_words(dict, fodder) ELSE <<>>
        normalized_fodder == normalize_text(fodder)
        normalized_answer == normalize_text(answer)
        f_letters == Sorted(normalized_fodder)
        a_letters == Sorted(normalized_answer)
        missing == counter_excess(normalized_answer, normalized_fodder)
        extra == counter_excess(normalized_fodder, normalized_answer)
    IN  IF ~identity_check.is_valid THEN identity_check
        ELSE IF Len(invalid_words) > 0
        THEN ValidationResult(FALSE, "Fodder contains non-dictionary words",
                              [invalid_words |-> invalid_words, fodder |-> fodder])
        ELSE IF f_letters = a_letters
        THEN ValidationResult(TRUE, "Valid anagram",
                              [fodder |-> normalized_fodder, answer |-> normalized_answer])
        ELSE ValidationResult(FALSE, "Invalid anagram: fodder letters do not exactly match answer letters",
                              [fodder_sorted |-> f_letters, answer_sorted |-> a_letters,
                               missing_letters |-> missing,
                               extra_letters |-> extra])

validate_hidden_word(fodder, answer) ==
    LET fodder_words == Split(fodder)
        answer_lower == lower(answer)
        fodder_words_lower == [i \in DOMAIN fodder_words |-> lower(fodder_words[i])]
        normalized_fodder == normalize_text(fodder)
        normalized_answer == normalize_text(answer)
        start_pos == Find(normalized_answer, normalized_fodder)
        end_pos == start_pos + Len(normalized_answer)
    IN  IF Len(fodder_words) = 1 /\ normalized_fodder = normalized_answer
        THEN ValidationResult(FALSE, "Identity constraint violated: Hidden word fodder is the answer itself",
                              [fodder |-> fodder, answer |-> answer])
        ELSE IF \E i \in DOMAIN fodder_words_lower : fodder_words_lower[i] = answer_lower
        THEN ValidationResult(FALSE, "Identity constraint violated: Answer appears as a standalone word in fodder",
                              [fodder |-> fodder, answer |-> answer])
        ELSE IF IsSubstring(normalized_answer, normalized_fodder)
        THEN ValidationResult(TRUE, "Valid hidden word",
                              [position |-> <<start_pos, end_pos>>,
                               before |-> SubSeq(normalized_fodder, 1, start_pos),
                               hidden |-> normalized_answer,
                               after |-> SubSeq(normalized_fodder, end_pos + 1, Len(normalized_fodder))])
        ELSE ValidationResult(FALSE, "Invalid hidden word: not found in",
                              [fodder |-> normalized_fodder, answer |-> normalized_answer])

\* parts: a sequence of strs
validate_charade(parts, answer) ==
    LET normalized_parts == [i \in DOMAIN parts |-> normalize_text(parts[i])]
        concatenated == Join(<<>>, normalized_parts)
        normalized_answer == normalize_text(answer)
    IN  IF Len(parts) = 0
        THEN ValidationResult(FALSE, "No parts provided for charade", NoDetails)
        ELSE IF concatenated = normalized_answer
        THEN ValidationResult(TRUE, "Valid charade",
                              [parts |-> normalized_parts, concatenated |-> concatenated])
        ELSE ValidationResult(FALSE, "Invalid charade",
                              [parts |-> normalized_parts, concatenated |-> concatenated,
                               expected |-> normalized_answer])

\* s[:pos] and s[pos:] for any int pos (negative indices count from the end)
SliceTo(s, pos) ==
    LET p == IF pos < 0 THEN (IF Len(s) + pos < 0 THEN 0 ELSE Len(s) + pos)
             ELSE (IF pos > Len(s) THEN Len(s) ELSE pos)
    IN  SubSeq(s, 1, p)
SliceFrom(s, pos) ==
    LET p == IF pos < 0 THEN (IF Len(s) + pos < 0 THEN 0 ELSE Len(s) + pos)
             ELSE (IF pos > Len(s) THEN Len(s) ELSE pos)
    IN  SubSeq(s, p + 1, Len(s))

\* position: [given |-> FALSE] for None, or [given |-> TRUE, at |-> an int]
validate_container(outer, inner, answer, position) ==
    LET normalized_outer == normalize_text(outer)
        normalized_inner == normalize_text(inner)
        normalized_answer == normalize_text(answer)
        positions_to_try == IF position.given THEN {position.at}
                            ELSE 0..Len(normalized_outer)
        Spliced(pos) == SliceTo(normalized_outer, pos) \o normalized_inner
                          \o SliceFrom(normalized_outer, pos)
        ok == {pos \in positions_to_try : Spliced(pos) = normalized_answer}
    IN  IF ok # {}
        THEN LET pos == CHOOSE p \in ok : \A q \in ok : p <= q
             IN  ValidationResult(TRUE, "Valid container",
                                  [outer |-> normalized_outer, inner |-> normalized_inner,
                                   position |-> pos, result |-> Spliced(pos)])
        ELSE ValidationResult(FALSE, "Invalid container",
                              [outer |-> normalized_outer, inner |-> normalized_inner,
                               expected |-> normalized_answer])

validate_reversal(word, answer) ==
    LET normalized_word == normalize_text(word)
        normalized_answer == normalize_text(answer)
        reversed_word == Reverse(normalized_word)
    IN  IF reversed_word = normalized_answer
        THEN ValidationResult(TRUE, "Valid reversal",
                              [word |-> normalized_word, reversed |-> reversed_word])
        ELSE ValidationResult(FALSE, "Invalid reversal",
                              [word |-> normalized_word, reversed |-> reversed_word,
                               expected |-> normalized_answer])

\* re.split(r'[+\s]+', s)
regex_split_plus_space(s) ==
    LET IsSep(c) == c = "+" \/ IsSpace(c)
        NotSep(c) == ~IsSep(c)
    IN  IF Len(s) = 0 THEN << <<>> >>
        ELSE (IF IsSep(s[1]) THEN << <<>> >> ELSE <<>>)
             \o Runs(s, NotSep)
             \o (IF IsSep(s[Len(s)]) THEN << <<>> >> ELSE <<>>)

\* the type tags validate_clue routes on
T_anagram == <<"a","n","a","g","r","a","m">>
T_hidden_word == <<"h","i","d","d","e","n"," ","w","o","r","d">>
T_charade == <<"c","h","a","r","a","d","e">>
T_charades == <<"c","h","a","r","a","d","e","s">>
T_container == <<"c","o","n","t","a","i","n","e","r">>
T_containers == <<"c","o","n","t","a","i","n","e","r","s">>
T_inclusion == <<"i","n","c","l","u","s","i","o","n">>
T_inclusions == <<"i","n","c","l","u","s","i","o","n","s">>
T_reversal == <<"r","e","v","e","r","s","a","l">>
T_reversals == <<"r","e","v","e","r","s","a","l","s">>
T_homophone == <<"h","o","m","o","p","h","o","n","e">>
T_homophones == <<"h","o","m","o","p","h","o","n","e","s">>
T_double_definition == <<"d","o","u","b","l","e"," ","d","e","f","i","n","i","t","i","o","n">>
T_double_definitions == <<"d","o","u","b","l","e"," ","d","e","f","i","n","i","t","i","o","n","s">>
T_lit == <<"&","l","i","t">>
T_all_in_one == <<"a","l","l","-","i","n","-","o","n","e">>

\* the parts validate_clue hands to validate_charade: wordplay_parts['parts'], or the
\* fodder split at + and whitespace when there is a fodder and no parts
charade_parts(wp) ==
    LET given == Get(wp.parts, JList(<<>>))
    IN  IF ~Truthy(given) /\ wp.fodder.t # "absent"
        THEN JList([i \in DOMAIN regex_split_plus_space(wp.fodder.v)
                      |-> JStr(regex_split_plus_space(wp.fodder.v)[i])])
        ELSE given

\* the validator of one mechanism, once type and answer are known
\* (wordplay_parts is the value stored in the record, or {} when the key is missing)
validate_clue_route(dict, clue_type, answer, wordplay_parts) ==
    LET wp == wordplay_parts.v
        \* wordplay_parts.get(...) on a value that is no mapping
        NoMapping == wordplay_parts.t # "dict"
    IN
    IF clue_type = T_anagram
    THEN IF NoMapping THEN Raise("AttributeError")
         ELSE LET fodder == Get(wp.fodder, JStr(<<>>))
              IN  IF ~Truthy(fodder)
                  THEN ValidationResult(FALSE, "No fodder provided for anagram", NoDetails)
                  ELSE IF fodder.t # "str" THEN Raise("TypeError")
                  ELSE validate_anagram(dict, fodder.v, answer.v)
    ELSE IF clue_type = T_hidden_word
    THEN IF NoMapping THEN Raise("AttributeError")
         ELSE LET fodder == Get(wp.fodder, JStr(<<>>))
              IN  IF ~Truthy(fodder)
                  THEN ValidationResult(FALSE, "No fodder provided for hidden word", NoDetails)
                  ELSE IF fodder.t # "str" THEN Raise("AttributeError")
                  ELSE validate_hidden_word(fodder.v, answer.v)
    ELSE IF clue_type = T_charades \/ clue_type = T_charade
    THEN IF NoMapping THEN Raise("AttributeError")
         ELSE LET given == Get(wp.parts, JList(<<>>))
                  fallback == ~Truthy(given) /\ wp.fodder.t # "absent"
                  parts == charade_parts(wp)
              IN  IF fallback /\ wp.fodder.t # "str" THEN Raise("TypeError")
                  ELSE IF ~Truthy(parts)
                  THEN ValidationResult(FALSE, "No parts provided for charade", NoDetails)
                  \* a str given as parts is iterated character by character; a list must
                  \* hold strs for normalize_text; the records hold no other kind of parts
                  ELSE IF parts.t = "str"
                  THEN validate_charade([i \in DOMAIN parts.v |-> <<parts.v[i]>>], answer.v)
                  ELSE IF \E i \in DOMAIN parts.v : parts.v[i].t # "str"
                  THEN Raise("TypeError")
                  ELSE validate_charade([i \in DOMAIN parts.v |-> parts.v[i].v], answer.v)
    ELSE IF clue_type \in {T_container, T_containers, T_inclusion, T_inclusions}
    THEN IF NoMapping THEN Raise("AttributeError")
         ELSE LET outer == Get(wp.outer, JStr(<<>>))
                  inner == Get(wp.inner, JStr(<<>>))
              IN  IF ~Truthy(outer) \/ ~Truthy(inner)
                  THEN ValidationResult(FALSE, "Missing 'outer' or 'inner' for container", NoDetails)
                  ELSE IF outer.t # "str" \/ inner.t # "str" THEN Raise("TypeError")
                  ELSE validate_container(outer.v, inner.v, answer.v, [given |-> FALSE])
    ELSE IF clue_type = T_reversal \/ clue_type = T_reversals
    THEN IF NoMapping THEN Raise("AttributeError")
         ELSE LET first == Get(wp.word, JStr(<<>>))
                  word == IF Truthy(first) THEN first ELSE Get(wp.fodder, JStr(<<>>))
              IN  IF ~Truthy(word)
                  THEN ValidationResult(FALSE, "No word provided for reversal", NoDetails)
                  ELSE IF word.t # "str" THEN Raise("TypeError")
                  ELSE validate_reversal(word.v, answer.v)
    ELSE IF clue_type \in {T_homophone, T_homophones}
    THEN ValidationResult(TRUE, "Homophone: Mechanical validation skipped",
                          [requires_llm |-> TRUE])
    ELSE IF clue_type \in {T_double_definition, T_double_definitions}
    THEN ValidationResult(TRUE, "Double Definition: Mechanical validation skipped",
                          [requires_llm |-> TRUE])
    ELSE IF clue_type = T_lit \/ clue_type = T_all_in_one
    THEN ValidationResult(TRUE, "&lit: Mechanical validation skipped",
                          [requires_llm |-> TRUE])
    ELSE ValidationResult(FALSE, "Unknown clue type", [supported_types |-> TRUE])

\* validate_clue as it would be if the type tag were compared without .lower()
validate_clue_case_sensitive(dict, clue_json) ==
    LET ty == Get(clue_json.type, JStr(<<>>))
        answer == Get(clue_json.answer, JStr(<<>>))
        wordplay_parts == Get(clue_json.wordplay_parts, EmptyDict)
    IN  IF ty.t # "str" THEN Raise("AttributeError")
        ELSE IF ~Truthy(answer)
        THEN ValidationResult(FALSE, "No answer provided in clue JSON", NoDetails)
        ELSE validate_clue_route(dict, ty.v, answer, wordplay_parts)

\* clue_json: [type, answer, wordplay_parts, clue, definition |-> JSON values]
validate_clue(dict, clue_json) ==
    LET ty == Get(clue_json.type, JStr(<<>>))
        answer == Get(clue_json.answer, JStr(<<>>))
        wordplay_parts == Get(clue_json.wordplay_parts, EmptyDict)
    IN  \* clue_json.get('type', '').lower()
        IF ty.t # "str" THEN Raise("AttributeError")
        ELSE IF ~Truthy(answer)
        THEN ValidationResult(FALSE, "No answer provided in clue JSON", NoDetails)
        ELSE validate_clue_route(dict, lower(ty.v), answer, wordplay_parts)

\* a key of results that was never set
NoResult == [kind |-> "unset"]

validate_clue_complete(dict, clue_json, enumeration) ==
    LET answer == Get(clue_json.answer, JStr(<<>>))
        \* validate_length reads the answer only once the enumeration holds digits
        length_reads_answer ==
            Truthy(enumeration) /\ \E i \in DOMAIN enumeration.v : enumeration.v[i] \in Digits
        length_result == IF ~Truthy(enumeration) THEN NoResult
                         ELSE IF length_reads_answer /\ answer.t # "str" THEN Raise("TypeError")
                         ELSE validate_length(answer.v, enumeration)
        wordplay_result == validate_clue(dict, clue_json)
        all_valid == /\ (length_result.kind = "ValidationResult" => length_result.is_valid)
                     /\ wordplay_result.is_valid
    IN  IF length_result.kind = "raise" THEN length_result
        ELSE IF wordplay_result.kind = "raise" THEN wordplay_result
        ELSE [kind |-> "tuple", all_valid |-> all_valid,
              results |-> [length |-> length_result, wordplay |-> wordplay_result]]

DigitChars == <<"0", "1", "2", "3", "4", "5", "6", "7", "8", "9">>

\* str(n) of a natural number
RECURSIVE format_int(_)
format_int(n) ==
    IF n < 10 THEN <<DigitChars[n + 1]>>
    ELSE format_int(n \div 10) \o <<DigitChars[(n % 10) + 1]>>

\* the characters U+2260 and U+2192 of the messages, each one element of a text
NotEqualSign == "!="
ArrowSign == "->"

\* the text of r.message, for a result r among those of
\* validate_clue_complete(clue_json, enumeration): the wording of the f-string with the
\* values it interpolates
message_text(clue_json, enumeration, r) ==
    LET m == r.message
        d == r.details
        answer == Get(clue_json.answer, JStr(<<>>)).v
        wp == Get(clue_json.wordplay_parts, EmptyDict).v
        fodder == wp.fodder.v
        given == charade_parts(wp)
        parts == IF given.t = "str" THEN [i \in DOMAIN given.v |-> <<given.v[i]>>]
                 ELSE [i \in DOMAIN given.v |-> given.v[i].v]
        outer == wp.outer.v
        inner == wp.inner.v
        word == IF Truthy(Get(wp.word, JStr(<<>>))) THEN wp.word.v ELSE wp.fodder.v
        \* " | Missing letters: " or " | Extra letters: " and ', '.join(sorted(l))
        letters(label, l) ==
            IF Len(l) = 0 THEN <<>>
            ELSE label \o Join(<<",", " ">>, [i \in DOMAIN l |-> <<Sorted(l)[i]>>])
    IN
        CASE m = "No enumeration provided to check" ->
               <<"N","o"," ","e","n","u","m","e","r","a","t","i","o","n"," ","p","r","o","v",
                  "i","d","e","d"," ","t","o"," ","c","h","e","c","k">>
          [] m = "Invalid enumeration format" ->
               <<"I","n","v","a","l","i","d"," ","e","n","u","m","e","r","a","t","i","o","n",
                  " ","f","o","r","m","a","t",":"," ">> \o enumeration.v
          [] m = "Length matches" ->
               <<"L","e","n","g","t","h"," ","m","a","t","c","h","e","s",":"," ">>
               \o format_int(Len(normalize_text(answer)))
          [] m = "Length mismatch" ->
               <<"L","e","n","g","t","h"," ","m","i","s","m","a","t","c","h",":"," ","e","x",
                  "p","e","c","t","e","d"," ">> \o format_int(d.expected)
               \o <<","," ","g","o","t"," ">> \o format_int(d.actual)
          [] m = "Identity constraint violated: answer appears in fodder" ->
               <<"I","d","e","n","t","i","t","y"," ","c","o","n","s","t","r","a","i","n","t",
                  " ","v","i","o","l","a","t","e","d",":"," ","a","n","s","w","e","r"," ","'">>
               \o d.answer
               \o <<"'"," ","a","p","p","e","a","r","s"," ","i","n"," ","f","o","d","d","e","r",
                  " ","'">> \o d.fodder \o <<"'">>
          [] m = "Identity constraint violated: answer variant appears in fodder" ->
               <<"I","d","e","n","t","i","t","y"," ","c","o","n","s","t","r","a","i","n","t",
                  " ","v","i","o","l","a","t","e","d",":"," ","a","n","s","w","e","r"," ","v",
                  "a","r","i","a","n","t"," ","'">> \o d.variant
               \o <<"'"," ","a","p","p","e","a","r","s"," ","i","n"," ","f","o","d","d","e","r",
                  " ","'">> \o d.fodder \o <<"'">>
          [] m = "Identity constraint satisfied: answer not in fodder" ->
               <<"I","d","e","n","t","i","t","y"," ","c","o","n","s","t","r","a","i","n","t",
                  " ","s","a","t","i","s","f","i","e","d",":"," ","a","n","s","w","e","r"," ",
                  "n","o","t"," ","i","n"," ","f","o","d","d","e","r">>
          [] m = "Fodder contains non-dictionary words" ->
               <<"F","o","d","d","e","r"," ","c","o","n","t","a","i","n","s"," ","n","o","n",
                  "-","d","i","c","t","i","o","n","a","r","y"," ","w","o","r","d","s",":"," ">>
               \o Join(<<",", " ">>, d.invalid_words)
               \o <<"."," ","A","l","l"," ","a","n","a","g","r","a","m"," ","f","o","d","d","e",
                  "r"," ","m","u","s","t"," ","u","s","e"," ","r","e","a","l"," ","E","n","g",
                  "l","i","s","h"," ","w","o","r","d","s",".">>
          [] m = "Valid anagram" ->
               <<"V","a","l","i","d"," ","a","n","a","g","r","a","m",":"," ","'">> \o fodder
               \o <<"'"," ">> \o <<ArrowSign>> \o <<" ","'">> \o answer \o <<"'">>
          [] m = "Invalid anagram: fodder letters do not exactly match answer letters" ->
               <<"I","n","v","a","l","i","d"," ","a","n","a","g","r","a","m",":"," ","f","o",
                  "d","d","e","r"," ","l","e","t","t","e","r","s"," ","d","o"," ","n","o","t",
                  " ","e","x","a","c","t","l","y"," ","m","a","t","c","h"," ","a","n","s","w",
                  "e","r"," ","l","e","t","t","e","r","s",".">>
               \o letters(<<" ","|"," ","M","i","s","s","i","n","g"," ","l","e","t","t","e","r","s",":"," ">>, d.missing_letters)
               \o letters(<<" ","|"," ","E","x","t","r","a"," ","l","e","t","t","e","r","s",":"," ">>, d.extra_letters)
          [] m = "Identity constraint violated: Hidden word fodder is the answer itself" ->
               <<"I","d","e","n","t","i","t","y"," ","c","o","n","s","t","r","a","i","n","t",
                  " ","v","i","o","l","a","t","e","d",":"," ","H","i","d","d","e","n"," ","w",
                  "o","r","d"," ","f","o","d","d","e","r"," ","'">> \o d.fodder
               \o <<"'"," ","i","s"," ","t","h","e"," ","a","n","s","w","e","r"," ","i","t","s",
                  "e","l","f","."," ","T","h","e"," ","a","n","s","w","e","r"," ","m","u","s",
                  "t"," ","b","e"," ","c","o","n","c","e","a","l","e","d"," ","a","c","r","o",
                  "s","s"," ","a","t"," ","l","e","a","s","t"," ","t","w","o"," ","w","o","r",
                  "d","s",".">>
          [] m = "Identity constraint violated: Answer appears as a standalone word in fodder" ->
               <<"I","d","e","n","t","i","t","y"," ","c","o","n","s","t","r","a","i","n","t",
                  " ","v","i","o","l","a","t","e","d",":"," ","A","n","s","w","e","r"," ","'">>
               \o d.answer
               \o <<"'"," ","a","p","p","e","a","r","s"," ","a","s"," ","a"," ","s","t","a","n",
                  "d","a","l","o","n","e"," ","w","o","r","d"," ","i","n"," ","f","o","d","d",
                  "e","r"," ","'">> \o d.fodder
               \o <<"'","."," ","T","h","e"," ","a","n","s","w","e","r"," ","m","u","s","t"," ",
                  "b","e"," ","c","o","n","c","e","a","l","e","d"," ","a","c","r","o","s","s",
                  " ","w","o","r","d"," ","b","o","u","n","d","a","r","i","e","s",","," ","n",
                  "o","t"," ","p","r","e","s","e","n","t"," ","a","s"," ","a"," ","c","o","m",
                  "p","l","e","t","e"," ","w","o","r","d",".">>
          [] m = "Valid hidden word" ->
               <<"V","a","l","i","d"," ","h","i","d","d","e","n"," ","w","o","r","d",":"," ",
                  "'">> \o answer \o <<"'"," ","f","o","u","n","d"," ","i","n"," ","'">>
               \o fodder \o <<"'">>
          [] m = "Invalid hidden word: not found in" ->
               <<"I","n","v","a","l","i","d"," ","h","i","d","d","e","n"," ","w","o","r","d",
                  ":"," ","'">> \o answer
               \o <<"'"," ","n","o","t"," ","f","o","u","n","d"," ","i","n"," ","'">> \o fodder
               \o <<"'">>
          [] m = "No parts provided for charade" ->
               <<"N","o"," ","p","a","r","t","s"," ","p","r","o","v","i","d","e","d"," ","f",
                  "o","r"," ","c","h","a","r","a","d","e">>
          [] m = "Valid charade" ->
               <<"V","a","l","i","d"," ","c","h","a","r","a","d","e",":"," ">>
               \o Join(<<" ", "+", " ">>, parts) \o <<" ","="," ","'">> \o answer \o <<"'">>
          [] m = "Invalid charade" ->
               <<"I","n","v","a","l","i","d"," ","c","h","a","r","a","d","e",":"," ">>
               \o Join(<<" ", "+", " ">>, parts) \o <<" ">> \o <<NotEqualSign>> \o <<" ","'">>
               \o answer \o <<"'">>
          [] m = "Valid container" ->
               <<"V","a","l","i","d"," ","c","o","n","t","a","i","n","e","r",":"," ","'">>
               \o inner \o <<"'"," ","i","n"," ","'">> \o outer
               \o <<"'"," ","a","t"," ","p","o","s","i","t","i","o","n"," ">>
               \o format_int(d.position) \o <<" ","="," ","'">> \o answer \o <<"'">>
          [] m = "Invalid container" ->
               <<"I","n","v","a","l","i","d"," ","c","o","n","t","a","i","n","e","r",":"," ",
                  "'">> \o inner \o <<"'"," ","i","n"," ","'">> \o outer
               \o <<"'"," ","d","o","e","s"," ","n","o","t"," ","p","r","o","d","u","c","e"," ",
                  "'">> \o answer \o <<"'">>
          [] m = "Valid reversal" ->
               <<"V","a","l","i","d"," ","r","e","v","e","r","s","a","l",":"," ","'">> \o word
               \o <<"'"," ","r","e","v","e","r","s","e","d"," ","="," ","'">> \o answer
               \o <<"'">>
          [] m = "Invalid reversal" ->
               <<"I","n","v","a","l","i","d"," ","r","e","v","e","r","s","a","l",":"," ","'">>
               \o word \o <<"'"," ","r","e","v","e","r","s","e","d"," ","(","'">> \o d.reversed
               \o <<"'",")"," ">> \o <<NotEqualSign>> \o <<" ","'">> \o answer \o <<"'">>
          [] m = "No answer provided in clue JSON" ->
               <<"N","o"," ","a","n","s","w","e","r"," ","p","r","o","v","i","d","e","d"," ",
                  "i","n"," ","c","l","u","e"," ","J","S","O","N">>
          [] m = "No fodder provided for anagram" ->
               <<"N","o"," ","f","o","d","d","e","r"," ","p","r","o","v","i","d","e","d"," ",
                  "f","o","r"," ","a","n","a","g","r","a","m">>
          [] m = "No fodder provided for hidden word" ->
               <<"N","o"," ","f","o","d","d","e","r"," ","p","r","o","v","i","d","e","d"," ",
                  "f","o","r"," ","h","i","d","d","e","n"," ","w","o","r","d">>
          [] m = "Missing 'outer' or 'inner' for container" ->
               <<"M","i","s","s","i","n","g"," ","'","o","u","t","e","r","'"," ","o","r"," ",
                  "'","i","n","n","e","r","'"," ","f","o","r"," ","c","o","n","t","a","i","n",
                  "e","r">>
          [] m = "No word provided for reversal" ->
               <<"N","o"," ","w","o","r","d"," ","p","r","o","v","i","d","e","d"," ","f","o",
                  "r"," ","r","e","v","e","r","s","a","l">>
          [] m = "Homophone: Mechanical validation skipped" ->
               <<"H","o","m","o","p","h","o","n","e",":"," ","M","e","c","h","a","n","i","c",
                  "a","l"," ","v","a","l","i","d","a","t","i","o","n"," ","s","k","i","p","p",
                  "e","d"," ","(","r","e","q","u","i","r","e","s"," ","a","u","d","i","o","/",
                  "p","h","o","n","e","t","i","c"," ","r","e","a","s","o","n","i","n","g",")">>
          [] m = "Double Definition: Mechanical validation skipped" ->
               <<"D","o","u","b","l","e"," ","D","e","f","i","n","i","t","i","o","n",":"," ",
                  "M","e","c","h","a","n","i","c","a","l"," ","v","a","l","i","d","a","t","i",
                  "o","n"," ","s","k","i","p","p","e","d"," ","(","r","e","q","u","i","r","e",
                  "s"," ","s","e","m","a","n","t","i","c"," ","r","e","a","s","o","n","i","n",
                  "g",")">>
          [] m = "&lit: Mechanical validation skipped" ->
               <<"&","l","i","t",":"," ","M","e","c","h","a","n","i","c","a","l"," ","v","a",
                  "l","i","d","a","t","i","o","n"," ","s","k","i","p","p","e","d"," ","(","r",
                  "e","q","u","i","r","e","s"," ","h","o","l","i","s","t","i","c"," ","r","e",
                  "a","s","o","n","i","n","g",")">>
          [] m = "Unknown clue type" ->
               <<"U","n","k","n","o","w","n"," ","c","l","u","e"," ","t","y","p","e",":"," ",
                  "'">> \o lower(clue_json.type.v) \o <<"'">>


-----------------------------------------------------------------------------
(* The inputs of the Mechanic model                                        *)

\* how many atoms a fodder is built from
MaxAtoms == 3
\* how many parts a charade has
MaxParts == 2
\* the largest splice position handed to validate_container
MaxPosition == 3

\* the pieces fodder strings are built from
FodderAtoms == {<<"a","c">>, <<"e">>, <<"R">>, <<"i","n","g">>, <<" ">>, <<"s">>, <<"-">>}

RECURSIVE AtomStrings(_)
AtomStrings(k) ==
    IF k = 0 THEN {<<>>}
    ELSE LET shorter == AtomStrings(k - 1)
         IN  shorter \cup {p \o a : p \in shorter, a \in FodderAtoms}

\* every concatenation of at most MaxAtoms atoms: "", "ac e", "Racing", "aces", "ac-e", ...
FodderStrings == AtomStrings(MaxAtoms)

\* answers: ACE, A-CE, RACE, ACRE, CARE, ACES, CE, ER, ace, and the empty answer
AnswerPool == {<<"A","C","E">>, <<"A","-","C","E">>, <<"R","A","C","E">>,
               <<"A","C","R","E">>, <<"C","A","R","E">>, <<"A","C","E","S">>,
               <<"C","E">>, <<"E","R">>, <<"a","c","e">>, <<>>}

\* no backend (enchant missing), or a backend with its word list
NoDictionary == [loaded |-> FALSE, words |-> {}]
Dict_en_GB == [loaded |-> TRUE,
               words |-> {<<"r","a","c","e">>, <<"a","c","e">>, <<"a","c","e","s">>,
                          <<"a","c","r","e">>, <<"r","a","c","i","n","g">>,
                          <<"a","c","i","n","g">>, <<"r","i","n","g">>,
                          <<"s","i","n","g">>, <<"r","a","c","e","s">>}]
Dict_en_US == [loaded |-> TRUE,
               words |-> Dict_en_GB.words \cup {<<"a","c">>, <<"e","r","s">>}]
Dictionaries == {NoDictionary, Dict_en_GB, Dict_en_US}

PartPool == {<<"A","C">>, <<"E">>, <<"c","e">>, <<"R"," ">>, <<>>}
PartLists == UNION {[1..n -> PartPool] : n \in 0..MaxParts}

PositionPool == {[given |-> FALSE, at |-> 0]}
                  \cup {[given |-> TRUE, at |-> p] : p \in (-1)..MaxPosition}

\* None, "", "(3)", "(4)", "(1,3)", "(2-2)", "(12)", "()", "3 "
EnumerationPool == {JNull, JStr(<<>>), JStr(<<"(","3",")">>), JStr(<<"(","4",")">>),
                    JStr(<<"(","1",",","3",")">>), JStr(<<"(","2","-","2",")">>),
                    JStr(<<"(","1","2",")">>), JStr(<<"(",")">>), JStr(<<"3"," ">>)}

\* the "type" of a record: a tag in some spelling, an unknown tag, null, or no key
TypePool == {JStr(<<"A","n","a","g","r","a","m">>), JStr(T_anagram),
             JStr(<<"H","i","d","d","e","n"," ","W","o","r","d">>),
             JStr(<<"C","h","a","r","a","d","e">>), JStr(T_charades),
             JStr(<<"C","o","n","t","a","i","n","e","r">>), JStr(T_inclusion),
             JStr(<<"R","e","v","e","r","s","a","l">>), JStr(T_reversals),
             JStr(<<"H","o","m","o","p","h","o","n","e">>),
             JStr(<<"H","O","M","O","P","H","O","N","E">>), JStr(T_homophones),
             JStr(<<"D","o","u","b","l","e"," ","D","e","f","i","n","i","t","i","o","n">>),
             JStr(T_double_definitions), JStr(T_lit), JStr(<<"&","L","I","T">>),
             JStr(T_all_in_one),
             JStr(<<"U","n","k","n","o","w","n","T","y","p","e">>), JStr(<<>>),
             JNull, JAbsent}

RecordAnswers == {JStr(<<"R","A","C","E">>), JStr(<<"A","C","E">>), JStr(<<>>), JNull, JAbsent}

\* the "wordplay_parts" of a record: no key, null, {} or a mapping with some fields
WordplayPool ==
    {JAbsent, JNull, EmptyDict,
     JDict([NoParts EXCEPT !.fodder = JStr(<<"a","c","R","e">>)]),
     JDict([NoParts EXCEPT !.fodder = JStr(<<"a","c"," ","R","e">>)]),
     JDict([NoParts EXCEPT !.fodder = JStr(<<"e","c","a","R">>)]),
     JDict([NoParts EXCEPT !.fodder = JStr(<<"R"," ","+"," ","a","c","e">>)]),
     JDict([NoParts EXCEPT !.fodder = JStr(<<>>)]),
     JDict([NoParts EXCEPT !.fodder = JNull]),
     JDict([NoParts EXCEPT !.parts = JList(<<JStr(<<"R">>), JStr(<<"A","C","E">>)>>)]),
     JDict([NoParts EXCEPT !.parts = JList(<<JStr(<<"R">>), JNull>>)]),
     JDict([NoParts EXCEPT !.parts = JList(<<>>)]),
     JDict([NoParts EXCEPT !.parts = JStr(<<"R","a"," ","c","E">>)]),
     JDict([NoParts EXCEPT !.parts = JNull, !.fodder = JStr(<<"R","+","a","c","e">>)]),
     JDict([NoParts EXCEPT !.outer = JStr(<<"R","E">>), !.inner = JStr(<<"A","C">>)]),
     JDict([NoParts EXCEPT !.outer = JStr(<<"R","E">>)]),
     JDict([NoParts EXCEPT !.word = JStr(<<"E","C","A","R">>)]),
     JDict([NoParts EXCEPT !.word = JStr(<<>>), !.fodder = JStr(<<"e","c","a">>)])}

ClueRecords ==
    {[type |-> ty, answer |-> an, wordplay_parts |-> wp, clue |-> JAbsent, definition |-> JAbsent]
        : ty \in TypePool, an \in RecordAnswers, wp \in WordplayPool}

-----------------------------------------------------------------------------
(* The Mechanic as a state machine: one call of one validator              *)

InitMechanic ==
    /\ pc = "ready"
    /\ result = NoResult
    /\ \/ /\ op \in {"check_identity_constraint", "validate_hidden_word", "validate_reversal"}
          /\ enchant_dict = NoDictionary
          /\ args \in [fodder : FodderStrings, answer : AnswerPool]
       \/ /\ op = "validate_anagram"
          /\ enchant_dict \in Dictionaries
          /\ args \in [fodder : FodderStrings, answer : AnswerPool]
       \/ /\ op = "validate_length"
          /\ enchant_dict = NoDictionary
          /\ args \in [answer : AnswerPool, enumeration : EnumerationPool]
       \/ /\ op = "validate_charade"
          /\ enchant_dict = NoDictionary
          /\ args \in [parts : PartLists, answer : AnswerPool]
       \/ /\ op = "validate_container"
          /\ enchant_dict = NoDictionary
          /\ args \in [outer : PartPool, inner : PartPool, answer : AnswerPool,
                       position : PositionPool]
       \/ /\ op = "validate_clue"
          /\ enchant_dict \in Dictionaries
          /\ args \in [clue_json : ClueRecords]
       \/ /\ op = "validate_clue_complete"
          /\ enchant_dict \in {NoDictionary, Dict_en_GB}
          /\ args \in [clue_json : ClueRecords,
                       enumeration : {JNull, JStr(<<"(","4",")">>), JStr(<<"(",")">>)}]

Return(name, value) ==
    /\ pc = "ready"
    /\ op = name
    /\ result' = value
    /\ pc' = "done"
    /\ UNCHANGED <<op, enchant_dict, args>>

CheckIdentityConstraint ==
    Return("check_identity_constraint", check_identity_constraint(args.fodder, args.answer))
ValidateLength ==
    Return("validate_length", validate_length(args.answer, args.enumeration))
ValidateAnagram ==
    Return("validate_anagram", validate_anagram(enchant_dict, args.fodder, args.answer))
ValidateHiddenWord ==
    Return("validate_hidden_word", validate_hidden_word(args.fodder, args.answer))
ValidateCharade ==
    Return("validate_charade", validate_charade(args.parts, args.answer))
ValidateContainer ==
    Return("validate_container",
           validate_container(args.outer, args.inner, args.answer, args.position))
ValidateReversal ==
    Return("validate_reversal", validate_reversal(args.fodder, args.answer))
ValidateClue ==
    Return("validate_clue", validate_clue(enchant_dict, args.clue_json))
ValidateClueComplete ==
    Return("validate_clue_complete",
           validate_clue_complete(enchant_dict, args.clue_json, args.enumeration))

NextMechanic ==
    \/ CheckIdentityConstraint
    \/ ValidateLength
    \/ ValidateAnagram
    \/ ValidateHiddenWord
    \/ ValidateCharade
    \/ ValidateContainer
    \/ ValidateReversal
    \/ ValidateClue
    \/ ValidateClueComplete

SpecMechanic == InitMechanic /\ [][NextMechanic]_vars

-----------------------------------------------------------------------------
(* Properties of the Mechanic                                              *)

Returned(name) == pc = "done" /\ op = name

\* the letters of normalize_text(f) and of normalize_text(a) form the same multiset
SameLetterMultiset(f, a) ==
    \A c \in LowerSet : Count(normalize_text(f), c) = Count(normalize_text(a), c)

\* every whitespace-separated token of f.lower() is a whitelisted abbreviation or a
\* word of the loaded dictionary
FodderTokensAccepted(dict, f) ==
    \A i \in DOMAIN Split(lower(f)) :
        LET w == Split(lower(f))[i]
        IN  w \in valid_abbreviations \/ w \in dict.words

\* C1 as stated: whichever backend is loaded, validate_anagram(F, A) is valid iff the
\* letter multisets of normalize_text(F) and normalize_text(A) are equal and
\* check_identity_constraint(F, A) passes.
C1_AnagramIffLettersAndIdentity ==
    Returned("validate_anagram") =>
        (result.is_valid <=>
            /\ SameLetterMultiset(args.fodder, args.answer)
            /\ check_identity_constraint(args.fodder, args.answer).is_valid)

\* C1 amended: validate_anagram(F, A) is valid iff the letter multisets are equal,
\* check_identity_constraint(F, A) passes and, when a dictionary backend is loaded,
\* every whitespace-separated token of F.lower() is a whitelisted abbreviation or a
\* dictionary word; with no backend loaded the stated equivalence holds.
C1_AnagramIffLettersIdentityAndDictionary ==
    Returned("validate_anagram") =>
        (result.is_valid <=>
            /\ SameLetterMultiset(args.fodder, args.answer)
            /\ check_identity_constraint(args.fodder, args.answer).is_valid
            /\ (enchant_dict.loaded => FodderTokensAccepted(enchant_dict, args.fodder)))

\* a valid anagram under a loaded dictionary
C1_Witness ==
    /\ Returned("validate_anagram")
    /\ enchant_dict.loaded
    /\ result.is_valid
    /\ Len(args.fodder) > 0

\* the letters of the k-th whitespace-separated word of f lie at positions
\* WordOffset(f, k) + 1 .. WordOffset(f, k) + WordLetters(f, k) of normalize_text(f)
WordLetters(f, k) == Len(normalize_text(Split(f)[k]))
WordOffset(f, k) == SumSeq([i \in 1..(k - 1) |-> WordLetters(f, i)])

\* the first occurrence of normalize_text(a) in normalize_text(f) lies inside one word
OccurrenceInsideOneWord(f, a) ==
    LET start == Find(normalize_text(a), normalize_text(f))
        stop == start + Len(normalize_text(a))
    IN  \E k \in DOMAIN Split(f) :
            WordOffset(f, k) <= start /\ stop <= WordOffset(f, k) + WordLetters(f, k)

\* C2 as stated: when validate_hidden_word(F, A) is valid, the matched occurrence of
\* normalize_text(A) is not contained in a single word of F and is not the whole fodder.
C2_HiddenWordSpansTwoWords ==
    (Returned("validate_hidden_word") /\ result.is_valid) =>
        /\ ~OccurrenceInsideOneWord(args.fodder, args.answer)
        /\ normalize_text(args.answer) # normalize_text(args.fodder)

\* the letters of a
LetterCount(a) == Len(SelectSeq(a, IsLetter))

\* the failure condition of check_identity_constraint as C3 words it
StatedIdentityFailure(f, a) ==
    LET nf == normalize_text(f)
        na == normalize_text(a)
        stem == SubSeq(na, 1, Len(na) - 1)
    IN  \/ IsSubstring(na, nf)
        \/ /\ LetterCount(a) > 3
           /\ \/ IsSubstring(na \o <<"s">>, nf)
              \/ IsSubstring(na \o <<"e","d">>, nf)
              \/ IsSubstring(na \o <<"i","n","g">>, nf)
              \/ /\ EndsWith(na, <<"e">>)
                 /\ \/ IsSubstring(stem \o <<"e","d">>, nf)
                    \/ IsSubstring(stem \o <<"i","n","g">>, nf)

\* C3 as stated: check_identity_constraint(F, A) fails exactly when normalize(A) is a
\* substring of normalize(F), or A is longer than 3 letters and an inflected variant
\* of normalize(A) is a substring of normalize(F).
C3_IdentityFailsExactlyWhenStated ==
    Returned("check_identity_constraint") =>
        (~result.is_valid <=> StatedIdentityFailure(args.fodder, args.answer))

\* the record's type is, case-insensitively, homophone, double definition or &lit
IsLlmOnlyType(clue_json) ==
    /\ clue_json.type.t = "str"
    /\ lower(clue_json.type.v) \in {T_homophone, T_double_definition, T_lit}

PassesRequiringLlm(r) ==
    /\ r.kind = "ValidationResult"
    /\ r.is_valid
    /\ "requires_llm" \in DOMAIN r.details
    /\ r.details.requires_llm

\* C5 as stated: validate_clue returns a valid result with requires_llm = true for
\* every record whose type is homophone, double definition or &lit.
C5_LlmOnlyTypesAlwaysPass ==
    (Returned("validate_clue") /\ IsLlmOnlyType(args.clue_json)) =>
        PassesRequiringLlm(result)

\* C5 amended: validate_clue returns a valid result with requires_llm = true for every
\* record with a non-empty answer whose type is homophone, double definition or &lit.
C5_LlmOnlyTypesPassGivenAnAnswer ==
    (/\ Returned("validate_clue")
     /\ IsLlmOnlyType(args.clue_json)
     /\ args.clue_json.answer.t = "str"
     /\ Len(args.clue_json.answer.v) > 0) =>
        PassesRequiringLlm(result)

\* a Homophone record (capitalised tag, answer given, no wordplay mapping) passes
C5_Witness ==
    /\ Returned("validate_clue")
    /\ args.clue_json.type = JStr(<<"H","o","m","o","p","h","o","n","e">>)
    /\ args.clue_json.answer.t = "str"
    /\ args.clue_json.wordplay_parts.t = "null"
    /\ PassesRequiringLlm(result)

\* C6 as stated: every Mechanic validator returns a result for every input and never
\* raises.
C6_ValidatorsNeverRaise ==
    pc = "done" => result.kind # "raise"

-----------------------------------------------------------------------------
(* src/auditor.py: the word lists                                          *)

DIRECTIONAL_BLOCKLIST ==
    {<<"a","s","c","e","n","d","i","n","g">>, <<"a","t","o","p">>,
     <<"c","l","i","m","b","i","n","g">>,
     <<"c","l","i","m","b","i","n","g"," ","u","p">>,
     <<"c","l","i","m","b","s">>, <<"c","o","m","e","s"," ","u","p">>,
     <<"g","o","i","n","g"," ","u","p">>, <<"l","i","f","t","e","d">>,
     <<"l","i","f","t","s">>, <<"m","o","u","n","t","i","n","g">>,
     <<"o","n">>, <<"o","v","e","r">>, <<"o","v","e","r","h","e","a","d">>,
     <<"r","i","s","e","s">>, <<"r","i","s","i","n","g">>,
     <<"s","k","y","w","a","r","d">>, <<"s","u","p","p","o","r","t","s">>,
     <<"u","n","d","e","r","n","e","a","t","h">>, <<"u","p">>,
     <<"u","p","w","a","r","d","s">>}

NOUN_INDICATORS ==
    {<<"a","n","a","g","r","a","m">>, <<"c","h","a","o","s">>,
     <<"h","a","s","h">>, <<"j","u","m","b","l","e">>,
     <<"m","e","d","l","e","y">>, <<"m","e","s","s">>,
     <<"m","i","x","t","u","r","e">>, <<"s","a","l","a","d">>,
     <<"t","a","n","g","l","e">>}

ALLOWED_CONNECTORS ==
    {<<"a","t">>, <<"b","e","c","o","m","e","s">>, <<"f","o","r">>,
     <<"f","r","o","m">>, <<"g","i","v","e","s">>, <<"i","n">>, <<"i","s">>,
     <<"o","f">>, <<"t","o">>, <<"w","i","t","h">>}

PRIORITY_ABBREVIATIONS ==
    {<<"A">>, <<"A","G">>, <<"A","U">>, <<"B">>, <<"B","A">>,
     <<"B","S","C">>, <<"C">>, <<"C","U">>, <<"D">>, <<"D","R">>, <<"E">>,
     <<"F">>, <<"F","E">>, <<"F","F">>, <<"G">>, <<"H">>, <<"H","R">>,
     <<"I">>, <<"K">>, <<"L">>, <<"L","B">>, <<"M">>, <<"M","A">>,
     <<"M","I","N">>, <<"M","O">>, <<"M","P">>, <<"N">>, <<"O">>,
     <<"O","Z">>, <<"P">>, <<"P","B">>, <<"P","M">>, <<"P","P">>, <<"Q">>,
     <<"Q","C">>, <<"R">>, <<"S">>, <<"T">>, <<"U">>, <<"V">>, <<"W">>,
     <<"X">>, <<"X","I">>, <<"Y">>, <<"Z">>}

EXTENDED_ABBREVIATIONS ==
    {<<"C","A">>, <<"C","H">>, <<"D","A","H">>, <<"D","I","T">>, <<"E","D">>,
     <<"E","N">>, <<"E","R">>, <<"G","I">>, <<"L","A">>, <<"N","D">>,
     <<"N","T">>, <<"R","A">>, <<"R","D">>, <<"R","E">>, <<"S","T">>,
     <<"T","E">>, <<"T","H">>}

-----------------------------------------------------------------------------
(* src/auditor.py: the regular expressions the checks use                  *)

AllLower(w) == \A i \in DOMAIN w : w[i] \in LowerSet
AllLetters(w) == \A i \in DOMAIN w : IsLetter(w[i])

\* re.findall(r'\b\w+\b', s): the maximal runs of word characters
WordRuns(s) == Runs(s, IsWordChar)

\* re.findall(r'\b[a-z]+\b', s): the runs of word characters made of a-z only
LetterWords(s) == SelectSeq(WordRuns(s), AllLower)

\* a position of text is a word boundary before index i + 1 / after index i
BoundaryBefore(text, i) == i = 1 \/ ~IsWordChar(text[i - 1])
BoundaryAfter(text, i) == i = Len(text) \/ ~IsWordChar(text[i + 1])

\* re.search(r'\b' + re.escape(term) + r'\b', text), for a term that begins and ends
\* with a letter
WordBoundedMatch(term, text) ==
    \E i \in 1..(Len(text) - Len(term) + 1) :
        /\ SubSeq(text, i, i + Len(term) - 1) = term
        /\ BoundaryBefore(text, i)
        /\ BoundaryAfter(text, i + Len(term) - 1)

AllSpaces(text, from, to) == \A k \in from..to : IsSpace(text[k])

\* text[i] and text[j] are joined by \s*,\s*
CommaBetween(text, i, j) ==
    \E c \in (i + 1)..(j - 1) :
        text[c] = "," /\ AllSpaces(text, i + 1, c - 1) /\ AllSpaces(text, c + 1, j - 1)

\* re.search(r'\b[a-z]\s*,\s*[a-z]\b', text)
ListingOfTwo(text) ==
    \E i, j \in DOMAIN text :
        /\ i < j
        /\ text[i] \in LowerSet /\ BoundaryBefore(text, i)
        /\ CommaBetween(text, i, j)
        /\ text[j] \in LowerSet /\ BoundaryAfter(text, j)

\* re.search(r'\b[a-z]\s*,\s*[a-z]\s*,\s*[a-z]\b', text)
ListingOfThree(text) ==
    \E i, j, k \in DOMAIN text :
        /\ i < j /\ j < k
        /\ text[i] \in LowerSet /\ BoundaryBefore(text, i)
        /\ CommaBetween(text, i, j)
        /\ text[j] \in LowerSet
        /\ CommaBetween(text, j, k)
        /\ text[k] \in LowerSet /\ BoundaryAfter(text, k)

\* re.search(r'\b' + lead + r'\s+[a-z]{1,2}\s*,', text), lead being with, from or has
LeadThenShortListing(lead, text) ==
    \E i \in 1..(Len(text) - Len(lead) + 1) :
        /\ SubSeq(text, i, i + Len(lead) - 1) = lead
        /\ BoundaryBefore(text, i)
        /\ \E q \in (i + Len(lead) + 1)..Len(text) :
              /\ AllSpaces(text, i + Len(lead), q - 1)
              /\ \E n \in 1..2 :
                    /\ q + n - 1 <= Len(text)
                    /\ \A k \in q..(q + n - 1) : text[k] \in LowerSet
                    /\ \E c \in (q + n)..Len(text) :
                          text[c] = "," /\ AllSpaces(text, q + n, c - 1)

\* the run of a-z that starts at index i of s
LowerRunAt(s, i) ==
    LET stop == CHOOSE j \in i..Len(s) :
                    /\ \A k \in i..j : s[k] \in LowerSet
                    /\ (j = Len(s) \/ s[j + 1] \notin LowerSet)
    IN  SubSeq(s, i, stop)

\* re.findall(lead + r'([a-z]+)', s): the groups of the non-overlapping matches
RECURSIVE FindAllAfter(_, _)
FindAllAfter(lead, s) ==
    LET hits == {i \in 1..(Len(s) - Len(lead)) :
                    /\ SubSeq(s, i, i + Len(lead) - 1) = lead
                    /\ s[i + Len(lead)] \in LowerSet}
    IN  IF hits = {} THEN <<>>
        ELSE LET first == CHOOSE i \in hits : \A j \in hits : i <= j
                 group == LowerRunAt(s, first + Len(lead))
             IN  <<group>> \o FindAllAfter(lead,
                        SubSeq(s, first + Len(lead) + Len(group), Len(s)))

-----------------------------------------------------------------------------
(* src/auditor.py: XimeneanAuditor                                         *)

\* the str stored under a key of the record, "" when the key is missing
Str(j) == Get(j, JStr(<<>>)).v
\* clue_json.get("wordplay_parts", {})
Wordplay(clue_json) == Get(clue_json.wordplay_parts, EmptyDict).v

\* the (passed, feedback) pair a check returns; the feedback is "[level] text ..."
Check(passed, level, feedback) ==
    [passed |-> passed, level |-> level, feedback |-> feedback]

Consonants == LowerSet \ {"a", "e", "i", "o", "u"}
Vowels == {"a", "e", "i", "o", "u"}

\* self.enchant_dict.check(word) raises: the backend object exists but its provider
\* fails on every lookup
check_raises(dict) == "broken" \in DOMAIN dict

\* is_word with gibberish patterns that match anywhere in the word
is_word_unanchored(dict, word) ==
    IF Len(word) < 2 THEN FALSE
    ELSE IF dict.loaded /\ ~check_raises(dict) THEN enchant_check(dict, word)
    ELSE LET word_lower == lower(word)
         IN  /\ ~(\E i \in 1..(Len(word_lower) - 4) :
                    \A k \in i..(i + 4) : word_lower[k] \in Consonants)
             /\ ~(\E i \in 1..(Len(word_lower) - 3) :
                    \A k \in i..(i + 3) : word_lower[k] \in Vowels)
             /\ AllLower(word_lower)

\* XimeneanAuditor.is_word
is_word(dict, word) ==
    IF Len(word) < 2 THEN FALSE
    ELSE IF dict.loaded /\ ~check_raises(dict) THEN enchant_check(dict, word)
    ELSE LET word_lower == lower(word)
         IN  /\ ~(Len(word_lower) >= 5 /\ \A i \in DOMAIN word_lower : word_lower[i] \in Consonants)
             /\ ~(Len(word_lower) >= 4 /\ \A i \in DOMAIN word_lower : word_lower[i] \in Vowels)
             /\ AllLower(word_lower)

\* _check_direction as it would be if it scanned the fodder and the mechanism as well
_check_direction_scanning_all_parts(clue_json) ==
    LET scanned == lower(Str(Wordplay(clue_json).indicator)) \o <<" ">>
                   \o lower(Str(Wordplay(clue_json).fodder)) \o <<" ">>
                   \o lower(Str(Wordplay(clue_json).mechanism))
        blocklisted_terms == {term \in DIRECTIONAL_BLOCKLIST : WordBoundedMatch(term, scanned)}
    IN  IF blocklisted_terms # {}
        THEN Check(FALSE, "FAIL", "Found down-only indicator(s) in indicator field")
        ELSE Check(TRUE, "PASS", "No down-only indicators detected in indicator field.")

_check_direction(clue_json) ==
    LET indicator == lower(Str(Wordplay(clue_json).indicator))
        blocklisted_terms == {term \in DIRECTIONAL_BLOCKLIST : WordBoundedMatch(term, indicator)}
    IN  IF blocklisted_terms # {}
        THEN Check(FALSE, "FAIL", "Found down-only indicator(s) in indicator field")
        ELSE Check(TRUE, "PASS", "No down-only indicators detected in indicator field.")

_check_indicator_fairness(clue_json) ==
    LET clue_type == lower(Str(clue_json.type))
        indicator == lower(Str(Wordplay(clue_json).indicator))
        indicator_words == Range(WordRuns(indicator))
    IN  IF clue_type = T_anagram /\ NOUN_INDICATORS \cap indicator_words # {}
        THEN Check(FALSE, "WARN", "Anagram uses noun indicator")
        ELSE Check(TRUE, "PASS", "Indicator appears fair.")

_check_fodder_presence(clue_json) ==
    LET clue_text == lower(Str(clue_json.clue))
        fodder == lower(Str(Wordplay(clue_json).fodder))
        fodder_words == LetterWords(fodder)
        missing_words == SelectSeq(fodder_words,
                            LAMBDA word : Len(word) > 2 /\ ~WordBoundedMatch(word, clue_text))
    IN  IF Len(fodder) = 0 THEN Check(TRUE, "PASS", "No fodder to check.")
        ELSE IF Len(missing_words) > 0
        THEN Check(FALSE, "FAIL", "Fodder words not found in clue text")
        ELSE Check(TRUE, "PASS", "All fodder words are physically present in the clue.")

\* _check_filler_words as it would be if three connectors were allowed
_check_filler_words_three_connectors(clue_json) ==
    LET clue_words == Range(LetterWords(lower(Str(clue_json.clue))))
        definition_words == Range(LetterWords(lower(Str(clue_json.definition))))
        fodder_words == Range(LetterWords(lower(Str(Wordplay(clue_json).fodder))))
        indicator_words == Range(LetterWords(lower(Str(Wordplay(clue_json).indicator))))
        functional_words == definition_words \cup fodder_words \cup indicator_words
        potential_fillers == clue_words \ functional_words
        connectors_used == potential_fillers \cap ALLOWED_CONNECTORS
        true_fillers == potential_fillers \ ALLOWED_CONNECTORS
    IN  IF Cardinality(connectors_used) > 3
        THEN Check(FALSE, "FAIL", "Too many connectors")
        ELSE IF true_fillers # {}
        THEN Check(FALSE, "FAIL", "Filler words detected")
        ELSE Check(TRUE, "PASS", "Minimalist economy achieved - all words serve a cryptic purpose.")

_check_filler_words(clue_json) ==
    LET clue_words == Range(LetterWords(lower(Str(clue_json.clue))))
        definition_words == Range(LetterWords(lower(Str(clue_json.definition))))
        fodder_words == Range(LetterWords(lower(Str(Wordplay(clue_json).fodder))))
        indicator_words == Range(LetterWords(lower(Str(Wordplay(clue_json).indicator))))
        functional_words == definition_words \cup fodder_words \cup indicator_words
        potential_fillers == clue_words \ functional_words
        connectors_used == potential_fillers \cap ALLOWED_CONNECTORS
        true_fillers == potential_fillers \ ALLOWED_CONNECTORS
    IN  IF Cardinality(connectors_used) > 2
        THEN Check(FALSE, "FAIL", "Too many connectors")
        ELSE IF true_fillers # {}
        THEN Check(FALSE, "FAIL", "Filler words detected")
        ELSE Check(TRUE, "PASS", "Minimalist economy achieved - all words serve a cryptic purpose.")

\* no word ending in 'ed' is excepted
no_ed_exceptions == {}

ed_exceptions == {<<"r","e","d">>, <<"b","e","d">>, <<"f","e","d">>, <<"l","e","d">>,
                  <<"w","e","d">>, <<"b","r","e","d">>, <<"s","h","e","d">>}

_check_indicator_grammar(clue_json) ==
    LET clue_text == lower(Str(clue_json.clue))
        clue_type == lower(Str(clue_json.type))
        indicator == Strip(lower(Str(Wordplay(clue_json).indicator)))
        fodder == Strip(lower(Str(Wordplay(clue_json).fodder)))
        indicator_pos == Find(indicator, clue_text)
        fodder_pos == Find(fodder, clue_text)
        past_participles == SelectSeq(Split(indicator),
                                LAMBDA word : /\ ~(Len(word) <= 3 \/ word \in ed_exceptions)
                                              /\ EndsWith(word, <<"e","d">>))
    IN  IF Len(indicator) = 0 \/ Len(fodder) = 0
        THEN Check(TRUE, "PASS", "No indicator or fodder to check.")
        ELSE IF indicator_pos = -1 \/ fodder_pos = -1
        THEN Check(TRUE, "PASS", "Cannot determine indicator/fodder positions.")
        ELSE IF Len(past_participles) = 0
        THEN Check(TRUE, "PASS", "Indicator grammar is correct (imperative form).")
        ELSE IF indicator_pos < fodder_pos
        THEN Check(TRUE, "PASS", "Indicator uses past participle in attributive position")
        ELSE IF clue_type = T_anagram
        THEN Check(FALSE, "FAIL", "Indicator appears AFTER fodder in anagram clue.")
        ELSE Check(TRUE, "PASS", "Indicator uses past participle after fodder.")

\* the fodder _check_identity_constraint extracts from the wordplay parts
auditor_identity_fodder(wordplay_parts) ==
    IF wordplay_parts.fodder.t # "absent" THEN wordplay_parts.fodder.v
    ELSE IF wordplay_parts.parts.t = "list"
    THEN Join(<<" ">>, [i \in DOMAIN wordplay_parts.parts.v |-> wordplay_parts.parts.v[i].v])
    ELSE IF wordplay_parts.outer.t # "absent" /\ wordplay_parts.inner.t # "absent"
    THEN wordplay_parts.outer.v \o <<" ">> \o wordplay_parts.inner.v
    ELSE <<>>

_check_identity_constraint(clue_json) ==
    LET answer == upper(Str(clue_json.answer))
        clue_type == lower(Str(clue_json.type))
        fodder == auditor_identity_fodder(Wordplay(clue_json))
        normalized_fodder == lower(SelectSeq(fodder, IsLetter))
        normalized_answer == lower(SelectSeq(answer, IsLetter))
        stem == SubSeq(normalized_answer, 1, Len(normalized_answer) - 1)
        variants == <<normalized_answer \o <<"s">>, normalized_answer \o <<"e","d">>,
                      normalized_answer \o <<"i","n","g">>>>
                    \o (IF EndsWith(normalized_answer, <<"e">>)
                        THEN <<stem \o <<"e","d">>, stem \o <<"i","n","g">>>>
                        ELSE <<>>)
    IN  IF Len(fodder) = 0 THEN Check(TRUE, "PASS", "No fodder to check")
        ELSE IF IsSubstring(normalized_answer, normalized_fodder)
        THEN Check(FALSE, "FAIL", "Identity constraint violated: answer appears in fodder")
        ELSE IF /\ Len(normalized_answer) > 3
                /\ \E i \in DOMAIN variants : IsSubstring(variants[i], normalized_fodder)
        THEN Check(FALSE, "FAIL", "Identity constraint violated: answer variant appears in fodder")
        ELSE IF /\ IsSubstring(<<"h","i","d","d","e","n">>, clue_type)
                /\ Len(Split(fodder)) = 1
                /\ normalized_fodder = normalized_answer
        THEN Check(FALSE, "FAIL", "Identity constraint violated: Hidden Word fodder IS the answer itself.")
        ELSE Check(TRUE, "PASS", "Identity constraint satisfied: not found in fodder")

acceptable_short ==
    {<<"a">>, <<"a","c","e">>, <<"a","n">>, <<"a","s">>, <<"a","t">>,
     <<"b","e">>, <<"b","y">>, <<"d","o">>, <<"g","a","s">>, <<"g","o">>,
     <<"h","e">>, <<"i">>, <<"i","f">>, <<"i","n">>, <<"i","s">>,
     <<"i","t">>, <<"m","e">>, <<"m","y">>, <<"n","e","w">>, <<"n","o">>,
     <<"o","f">>, <<"o","l","d">>, <<"o","n">>, <<"o","n","e">>, <<"o","r">>,
     <<"s","o">>, <<"s","o","n">>, <<"t","e","a">>, <<"t","e","n">>,
     <<"t","o">>, <<"t","w","o">>, <<"u","p">>, <<"u","s">>, <<"w","e">>}

common_two_letter ==
    {<<"a","m">>, <<"a","n">>, <<"a","s">>, <<"a","t">>, <<"b","e">>,
     <<"b","y">>, <<"d","o">>, <<"g","o">>, <<"h","e">>, <<"h","i">>,
     <<"i","f">>, <<"i","n">>, <<"i","s">>, <<"i","t">>, <<"m","e">>,
     <<"m","y">>, <<"n","o">>, <<"o","f">>, <<"o","h">>, <<"o","k">>,
     <<"o","n">>, <<"o","r">>, <<"o","x">>, <<"s","o">>, <<"t","o">>,
     <<"u","p">>, <<"u","s">>, <<"w","e">>, <<"y","e">>}

_check_narrative_integrity(dict, clue_json) ==
    LET clue_type == lower(Str(clue_json.type))
        fodder == Str(Wordplay(clue_json).fodder)
        words == Split(lower(fodder))
        invalid_words == SelectSeq(words,
                            LAMBDA word : /\ ~(Len(word) <= 2 /\ word \in valid_abbreviations)
                                          /\ ~enchant_check(dict, word))
        clue_text == lower(Str(clue_json.clue))
        tokens == LetterWords(clue_text)
        suspicious_tokens == SelectSeq(tokens,
                                LAMBDA token : /\ Len(token) = 2
                                               /\ token \notin acceptable_short
                                               /\ token \notin common_two_letter)
    IN  IF /\ IsSubstring(T_anagram, clue_type)
           /\ dict.loaded
           /\ Len(fodder) > 0
           /\ Len(invalid_words) > 0
        THEN Check(FALSE, "FAIL", "Anagram fodder contains non-dictionary gibberish")
        ELSE IF \/ ListingOfTwo(clue_text)
                \/ ListingOfThree(clue_text)
                \/ LeadThenShortListing(<<"w","i","t","h">>, clue_text)
                \/ LeadThenShortListing(<<"f","r","o","m">>, clue_text)
                \/ LeadThenShortListing(<<"h","a","s">>, clue_text)
        THEN Check(FALSE, "FAIL", "Surface contains literal letter listing")
        ELSE IF Len(suspicious_tokens) > 0 /\ "," \in Range(clue_text)
        THEN Check(TRUE, "WARN", "Possible unmasked abbreviations")
        ELSE Check(TRUE, "PASS", "Surface reading appears natural - no literal letter listings detected.")

\* re.findall(r'\b([A-Z]{1,4})\b', fodder): runs of word characters that are one to
\* four capitals
UpperFragments(fodder) ==
    SelectSeq(WordRuns(fodder),
              LAMBDA w : Len(w) <= 4 /\ \A i \in DOMAIN w : w[i] \in UpperSet)

T_reverse == <<"r","e","v","e","r","s","e">>

\* the words caught after "reverse of ", "anagram of " and "hidden in " in the mechanism
mechanism_words(mechanism) ==
    FindAllAfter(<<"r","e","v","e","r","s","e"," ","o","f"," ">>, mechanism)
    \o FindAllAfter(<<"a","n","a","g","r","a","m"," ","o","f"," ">>, mechanism)
    \o FindAllAfter(<<"h","i","d","d","e","n"," ","i","n"," ">>, mechanism)

_check_obscurity(dict, clue_json) ==
    LET clue_type == lower(Str(clue_json.type))
        fodder == upper(Str(Wordplay(clue_json).fodder))
        mechanism == lower(Str(Wordplay(clue_json).mechanism))
        fragments == UpperFragments(fodder)
        non_priority_fragments ==
            SelectSeq(fragments,
                      LAMBDA frag : /\ Len(frag) <= 3
                                    /\ \/ frag \notin PRIORITY_ABBREVIATIONS
                                       \/ frag \in EXTENDED_ABBREVIATIONS)
        fodder_words == LetterWords(lower(fodder))
        non_words == SelectSeq(fodder_words,
                               LAMBDA word : Len(word) > 2 /\ ~is_word(dict, word))
        bad_mechanism == SelectSeq(mechanism_words(mechanism),
                                   LAMBDA match : Len(match) > 3 /\ ~is_word(dict, match))
    IN  IF Len(non_priority_fragments) > 0
        THEN Check(TRUE, "WARN", "Non-priority abbreviations detected")
        ELSE IF clue_type \in {T_reversal, T_reverse} /\ Len(non_words) > 0
        THEN Check(FALSE, "FAIL", "Non-word fodder detected")
        ELSE IF Len(bad_mechanism) > 0
        THEN Check(FALSE, "FAIL", "Non-word in mechanism")
        ELSE Check(TRUE, "PASS", "All abbreviations are standard Top 50 priority types.")

_check_word_validity(dict, clue_json) ==
    LET fodder == lower(Str(Wordplay(clue_json).fodder))
        fodder_words == SelectSeq(LetterWords(fodder), LAMBDA w : Len(w) >= 2)
        words_to_check ==
            SelectSeq(fodder_words,
                      LAMBDA word : /\ upper(word) \notin PRIORITY_ABBREVIATIONS
                                    /\ upper(word) \notin EXTENDED_ABBREVIATIONS
                                    /\ Len(word) >= 3)
        non_words == SelectSeq(words_to_check, LAMBDA word : ~is_word(dict, word))
    IN  IF Len(fodder) = 0 THEN Check(TRUE, "PASS", "No fodder to validate.")
        ELSE IF Len(words_to_check) = 0
        THEN Check(TRUE, "PASS", "No substantial words in fodder to validate.")
        ELSE IF Len(non_words) > 0
        THEN Check(FALSE, "FAIL", "Non-dictionary words detected in fodder")
        ELSE Check(TRUE, "PASS", "All fodder words are valid dictionary entries.")

Max(a, b) == IF a >= b THEN a ELSE b
Min(a, b) == IF a <= b THEN a ELSE b

\* _calculate_ximenean_score as it would be without its final max(0.0, score)
_calculate_ximenean_score_unclamped(clue_json, checks) ==
    LET clue_words == Len(LetterWords(lower(Str(clue_json.clue))))
        filler_penalty == IF checks.filler THEN 0
                          ELSE IF clue_words > 10 THEN 30
                          ELSE IF clue_words > 8 THEN 20
                          ELSE 15
        score == 100 - filler_penalty
                     - (IF checks.grammar THEN 0 ELSE 30)
                     - (IF checks.fodder THEN 0 ELSE 40)
                     - (IF checks.word_validity THEN 0 ELSE 50)
                     - (IF checks.obscurity THEN 0 ELSE 20)
                     - (IF checks.narrative THEN 0 ELSE 25)
    IN  score

\* _calculate_ximenean_score, in hundredths (1.0 is 100)
_calculate_ximenean_score(clue_json, checks) ==
    LET clue_words == Len(LetterWords(lower(Str(clue_json.clue))))
        filler_penalty == IF checks.filler THEN 0
                          ELSE IF clue_words > 10 THEN 30
                          ELSE IF clue_words > 8 THEN 20
                          ELSE 15
        score == 100 - filler_penalty
                     - (IF checks.grammar THEN 0 ELSE 30)
                     - (IF checks.fodder THEN 0 ELSE 40)
                     - (IF checks.word_validity THEN 0 ELSE 50)
                     - (IF checks.obscurity THEN 0 ELSE 20)
                     - (IF checks.narrative THEN 0 ELSE 25)
    IN  Max(0, score)

T_hidden == <<"h","i","d","d","e","n">>

\* _calculate_difficulty_level as it would be without the abbreviation factor
_calculate_difficulty_level_without_abbreviations(clue_json) ==
    LET clue_type == lower(Str(clue_json.type))
        by_type == IF clue_type \in {T_hidden, T_homophone} THEN -1
                   ELSE IF clue_type \in {T_reversal, T_charade} THEN 1
                   ELSE 0
        by_definition == IF IsSubstring(lower(Str(clue_json.definition)),
                                        lower(Str(clue_json.clue))) THEN -1 ELSE 1
        by_length == IF Len(Split(lower(Str(clue_json.clue)))) <= 5 THEN -1 ELSE 0
        by_fodder == IF Count(upper(Str(Wordplay(clue_json).fodder)), "+") + 1 >= 4
                     THEN 1 ELSE 0
    IN  Max(1, Min(5, 3 + by_type + by_definition + by_length + by_fodder))

\* _calculate_difficulty_level as it would be without its final clamp
_calculate_difficulty_level_unclamped(clue_json) ==
    LET clue_type == lower(Str(clue_json.type))
        definition == lower(Str(clue_json.definition))
        clue_text == lower(Str(clue_json.clue))
        fodder == upper(Str(Wordplay(clue_json).fodder))
        by_type == IF clue_type \in {T_hidden, T_homophone} THEN -1
                   ELSE IF clue_type \in {T_container, T_double_definition} THEN 0
                   ELSE IF clue_type \in {T_reversal, T_charade} THEN 1
                   ELSE 0
        by_definition == IF IsSubstring(definition, clue_text) THEN -1 ELSE 1
        priority_abbrev_count ==
            Cardinality({abbr \in PRIORITY_ABBREVIATIONS : IsSubstring(abbr, fodder)})
        by_abbreviations == IF priority_abbrev_count >= 3 THEN 1 ELSE 0
        word_count == Len(Split(clue_text))
        by_length == IF word_count <= 5 THEN -1 ELSE 0
        fodder_parts == Count(fodder, "+") + 1
        by_fodder == IF fodder_parts >= 4 THEN 1 ELSE 0
        difficulty == 3 + by_type + by_definition + by_abbreviations + by_length + by_fodder
    IN  difficulty

_calculate_difficulty_level(clue_json) ==
    LET clue_type == lower(Str(clue_json.type))
        definition == lower(Str(clue_json.definition))
        clue_text == lower(Str(clue_json.clue))
        fodder == upper(Str(Wordplay(clue_json).fodder))
        by_type == IF clue_type \in {T_hidden, T_homophone} THEN -1
                   ELSE IF clue_type \in {T_container, T_double_definition} THEN 0
                   ELSE IF clue_type \in {T_reversal, T_charade} THEN 1
                   ELSE 0
        by_definition == IF IsSubstring(definition, clue_text) THEN -1 ELSE 1
        priority_abbrev_count ==
            Cardinality({abbr \in PRIORITY_ABBREVIATIONS : IsSubstring(abbr, fodder)})
        by_abbreviations == IF priority_abbrev_count >= 3 THEN 1 ELSE 0
        word_count == Len(Split(clue_text))
        by_length == IF word_count <= 5 THEN -1 ELSE 0
        fodder_parts == Count(fodder, "+") + 1
        by_fodder == IF fodder_parts >= 4 THEN 1 ELSE 0
        difficulty == 3 + by_type + by_definition + by_abbreviations + by_length + by_fodder
    IN  Max(1, Min(5, difficulty))

\* _calculate_narrative_fidelity as it would be without its final clamp
_calculate_narrative_fidelity_unclamped(clue_json, checks) ==
    LET word_count == Len(Split(Str(clue_json.clue)))
        fidelity == 100 - (IF checks.narrative THEN 0 ELSE 40)
                        - (IF checks.filler THEN 0 ELSE 20)
                        - (IF checks.grammar THEN 0 ELSE 15)
                        - (IF checks.double_duty THEN 0 ELSE 10)
                        - (IF checks.obscurity THEN 0 ELSE 10)
                        + (IF word_count <= 6 THEN 5 ELSE IF word_count >= 12 THEN -10 ELSE 0)
    IN  fidelity

\* _calculate_narrative_fidelity, in percent
_calculate_narrative_fidelity(clue_json, checks) ==
    LET word_count == Len(Split(Str(clue_json.clue)))
        fidelity == 100 - (IF checks.narrative THEN 0 ELSE 40)
                        - (IF checks.filler THEN 0 ELSE 20)
                        - (IF checks.grammar THEN 0 ELSE 15)
                        - (IF checks.double_duty THEN 0 ELSE 10)
                        - (IF checks.obscurity THEN 0 ELSE 10)
                        + (IF word_count <= 6 THEN 5 ELSE IF word_count >= 12 THEN -10 ELSE 0)
    IN  Max(0, Min(100, fidelity))

\* what self.client.chat.completions.create does: it raises, or it returns a response
\* with a list of choices; a choice has a text attribute (JAbsent: none, or not a
\* str) and a message.content (JAbsent: no message)
LlmRaises(exc) == [kind |-> "raise", exc |-> exc]
LlmResponse(choices) == [kind |-> "response", choices |-> choices]
Choice(text, content) == [text |-> text, content |-> content]

Text(s) == [kind |-> "str", v |-> s]

\* _extract_response_text: the text, or ValueError
_extract_response_text(response) ==
    IF Len(response.choices) = 0 THEN Raise("ValueError")
    ELSE LET choice == response.choices[1]
             msg_content == choice.content
             response_text ==
                IF choice.text.t = "str" THEN choice.text
                ELSE IF msg_content.t = "absent" THEN JNull
                ELSE IF msg_content.t = "str" THEN msg_content
                ELSE IF msg_content.t = "dict" THEN Get(msg_content.v.text, JStr(<<>>))
                ELSE IF msg_content.t = "list" /\ Len(msg_content.v) > 0
                THEN LET first_item == msg_content.v[1]
                     IN  IF first_item.t = "dict"
                         THEN Get(first_item.v.text, JStr(<<"{", "}">>))
                         ELSE first_item
                ELSE IF msg_content.t = "list" THEN JNull
                ELSE JStr(<<"N","o","n","e">>)
         IN  IF ~Truthy(response_text) THEN Raise("ValueError")
             ELSE Text(response_text.v)

\* s.split('\n')[0]
FirstLine(s) ==
    LET breaks == {i \in DOMAIN s : s[i] = "\n"}
    IN  IF breaks = {} THEN s
        ELSE SubSeq(s, 1, (CHOOSE i \in breaks : \A j \in breaks : i <= j) - 1)

\* the except branch of _check_double_duty_with_llm
double_duty_llm_error ==
    Check(TRUE, "WARN", "Could not verify double duty (LLM error)")

\* the verdict _check_double_duty_with_llm reads off the response text
double_duty_verdict(response_text) ==
    LET clean_text == upper(Strip(response_text))
        first_line == FirstLine(clean_text)
    IN  IF \/ IsSubstring(<<"P","A","S","S">>, first_line)
           \/ IsSubstring(<<"P","A","S","S",":">>, clean_text)
        THEN [passed |-> TRUE, level |-> "PASS", feedback |-> "No double duty detected.",
              response |-> Strip(response_text)]
        ELSE [passed |-> FALSE, level |-> "FAIL", feedback |-> "Double duty violation detected.",
              response |-> Strip(response_text)]

\* _check_double_duty_with_llm as it would be without its try/except
_check_double_duty_with_llm_unguarded(clue_json, llm) ==
    IF llm.kind = "raise" THEN Raise(llm.exc)
    ELSE LET response_text == _extract_response_text(llm)
         IN  IF response_text.kind = "raise" THEN response_text
             ELSE double_duty_verdict(response_text.v)

\* llm: what the completion request does when the check issues it
_check_double_duty_with_llm(clue_json, llm) ==
    IF llm.kind = "raise" THEN double_duty_llm_error
    ELSE LET response_text == _extract_response_text(llm)
         IN  IF response_text.kind = "raise" THEN double_duty_llm_error
             ELSE double_duty_verdict(response_text.v)

\* llm: what the completion request does when the refinement is asked for
_suggest_refinement(clue_json, llm) ==
    IF llm.kind = "raise" THEN JNull
    ELSE LET response_text == _extract_response_text(llm)
         IN  IF response_text.kind = "raise" THEN JNull
             ELSE JStr(Strip(response_text.v))

\* the feedback half of a check's pair
Feedback(check) == [x \in DOMAIN check \ {"passed"} |-> check[x]]

\* fairness_score = sum(checks) / len(checks), as it would be if the last check were
\* left out of the count
fairness_score_without_last(checks) ==
    Cardinality({i \in DOMAIN checks : checks[i] /\ i < Len(checks)})

\* fairness_score = sum(checks) / len(checks), in tenths: the list holds ten verdicts
fairness_score(checks) == Cardinality({i \in DOMAIN checks : checks[i]})

\* overall_passed = all(checks)
overall_passed(checks) == \A i \in DOMAIN checks : checks[i]

\* the AuditResult audit_clue builds from the (passed, feedback) pairs of its ten
\* checks; fairness_score is in tenths, ximenean_score in hundredths
audit_result(clue_json, locals, llm_refinement) ==
    LET checks == <<locals.direction.passed, locals.double_duty.passed,
                    locals.fairness.passed, locals.identity.passed,
                    locals.fodder.passed, locals.filler.passed, locals.grammar.passed,
                    locals.narrative.passed, locals.obscurity.passed,
                    locals.word_validity.passed>>
        check_dict == [name \in DOMAIN locals |-> locals[name].passed]
    IN  [kind |-> "AuditResult",
         passed |-> overall_passed(checks),
         direction_check |-> locals.direction.passed,
         direction_feedback |-> Feedback(locals.direction),
         double_duty_check |-> locals.double_duty.passed,
         double_duty_feedback |-> Feedback(locals.double_duty),
         indicator_fairness_check |-> locals.fairness.passed,
         indicator_fairness_feedback |-> Feedback(locals.fairness),
         identity_check |-> locals.identity.passed,
         identity_feedback |-> Feedback(locals.identity),
         fodder_presence_check |-> locals.fodder.passed,
         fodder_presence_feedback |-> Feedback(locals.fodder),
         filler_check |-> locals.filler.passed,
         filler_feedback |-> Feedback(locals.filler),
         indicator_grammar_check |-> locals.grammar.passed,
         indicator_grammar_feedback |-> Feedback(locals.grammar),
         narrative_integrity_check |-> locals.narrative.passed,
         narrative_integrity_feedback |-> Feedback(locals.narrative),
         obscurity_check |-> locals.obscurity.passed,
         obscurity_feedback |-> Feedback(locals.obscurity),
         word_validity_check |-> locals.word_validity.passed,
         word_validity_feedback |-> Feedback(locals.word_validity),
         fairness_score |-> fairness_score(checks),
         refinement_suggestion |->
             IF ~overall_passed(checks) /\ fairness_score(checks) > 5
             THEN _suggest_refinement(clue_json, llm_refinement)
             ELSE JNull,
         ximenean_score |-> _calculate_ximenean_score(clue_json, check_dict),
         difficulty_level |-> _calculate_difficulty_level(clue_json),
         narrative_fidelity |-> _calculate_narrative_fidelity(clue_json, check_dict)]

\* audit_clue: the ten checks in the order of the calls, then the result
audit_clue(dict, clue_json, llm, llm_refinement) ==
    LET locals == [direction |-> _check_direction(clue_json),
                   double_duty |-> _check_double_duty_with_llm(clue_json, llm),
                   fairness |-> _check_indicator_fairness(clue_json),
                   identity |-> _check_identity_constraint(clue_json),
                   fodder |-> _check_fodder_presence(clue_json),
                   filler |-> _check_filler_words(clue_json),
                   grammar |-> _check_indicator_grammar(clue_json),
                   narrative |-> _check_narrative_integrity(dict, clue_json),
                   obscurity |-> _check_obscurity(dict, clue_json),
                   word_validity |-> _check_word_validity(dict, clue_json)]
    IN  IF "exc" \in DOMAIN locals.double_duty THEN locals.double_duty
        ELSE audit_result(clue_json, locals, llm_refinement)

-----------------------------------------------------------------------------
(* The inputs of the Auditor model                                         *)

\* the records audited, as the Setter writes them: every field a str
SetterClue(ty, answer, clue, definition, fodder, indicator, mechanism) ==
    [type |-> JStr(ty), answer |-> JStr(answer), clue |-> JStr(clue),
     definition |-> JStr(definition),
     wordplay_parts |-> JDict([NoParts EXCEPT !.fodder = JStr(fodder),
                                              !.indicator = JStr(indicator),
                                              !.mechanism = JStr(mechanism)])]

\* a record with no key at all
EmptyRecord == [type |-> JAbsent, answer |-> JAbsent, clue |-> JAbsent,
                definition |-> JAbsent, wordplay_parts |-> JAbsent]

\* Anagram, SILENT: "Confused listen to be quiet (6)"; definition "be quiet", fodder "listen", indicator "confused",
\* mechanism "anagram of listen"
Clue01 ==
    SetterClue(<<"A","n","a","g","r","a","m">>, <<"S","I","L","E","N","T">>,
              <<"C","o","n","f","u","s","e","d"," ","l","i","s","t","e","n"," ","t","o"," ","b","e"," ","q","u","i","e","t"," ","(","6",")">>,
              <<"b","e"," ","q","u","i","e","t">>, <<"l","i","s","t","e","n">>,
              <<"c","o","n","f","u","s","e","d">>,
              <<"a","n","a","g","r","a","m"," ","o","f"," ","l","i","s","t","e","n">>)

\* Anagram, SILENT: "Listen confused, be quiet (6)"; definition "be quiet", fodder "listen", indicator "confused",
\* mechanism "anagram of listen"
Clue02 ==
    SetterClue(<<"A","n","a","g","r","a","m">>, <<"S","I","L","E","N","T">>,
              <<"L","i","s","t","e","n"," ","c","o","n","f","u","s","e","d",","," ","b","e"," ","q","u","i","e","t"," ","(","6",")">>,
              <<"b","e"," ","q","u","i","e","t">>, <<"l","i","s","t","e","n">>,
              <<"c","o","n","f","u","s","e","d">>,
              <<"a","n","a","g","r","a","m"," ","o","f"," ","l","i","s","t","e","n">>)

\* anagram, SILENT: "Tinsel salad is quiet (6)"; definition "quiet", fodder "tinsel", indicator "salad",
\* mechanism "anagram of tinsel"
Clue03 ==
    SetterClue(<<"a","n","a","g","r","a","m">>, <<"S","I","L","E","N","T">>,
              <<"T","i","n","s","e","l"," ","s","a","l","a","d"," ","i","s"," ","q","u","i","e","t"," ","(","6",")">>,
              <<"q","u","i","e","t">>, <<"t","i","n","s","e","l">>,
              <<"s","a","l","a","d">>,
              <<"a","n","a","g","r","a","m"," ","o","f"," ","t","i","n","s","e","l">>)

\* Reversal, TAB: "Bat returned for bill (3)"; definition "bill", fodder "bat", indicator "returned",
\* mechanism "reverse of bat"
Clue04 ==
    SetterClue(<<"R","e","v","e","r","s","a","l">>, <<"T","A","B">>,
              <<"B","a","t"," ","r","e","t","u","r","n","e","d"," ","f","o","r"," ","b","i","l","l"," ","(","3",")">>,
              <<"b","i","l","l">>, <<"b","a","t">>,
              <<"r","e","t","u","r","n","e","d">>,
              <<"r","e","v","e","r","s","e"," ","o","f"," ","b","a","t">>)

\* Reversal, BATTEN: "Nettab rising gives strip (6)"; definition "strip", fodder "nettab", indicator "rising",
\* mechanism "reverse of nettab"
Clue05 ==
    SetterClue(<<"R","e","v","e","r","s","a","l">>, <<"B","A","T","T","E","N">>,
              <<"N","e","t","t","a","b"," ","r","i","s","i","n","g"," ","g","i","v","e","s"," ","s","t","r","i","p"," ","(","6",")">>,
              <<"s","t","r","i","p">>, <<"n","e","t","t","a","b">>,
              <<"r","i","s","i","n","g">>,
              <<"r","e","v","e","r","s","e"," ","o","f"," ","n","e","t","t","a","b">>)

\* Reversal, GOD: "Dog nettab back (3)"; definition "deity", fodder "dog nettab", indicator "back",
\* mechanism "reverse of dog"
Clue06 ==
    SetterClue(<<"R","e","v","e","r","s","a","l">>, <<"G","O","D">>,
              <<"D","o","g"," ","n","e","t","t","a","b"," ","b","a","c","k"," ","(","3",")">>,
              <<"d","e","i","t","y">>, <<"d","o","g"," ","n","e","t","t","a","b">>,
              <<"b","a","c","k">>,
              <<"r","e","v","e","r","s","e"," ","o","f"," ","d","o","g">>)

\* reversal, ZYX: "Xyz back (3)"; definition "", fodder "xyz", indicator "back",
\* mechanism ""
Clue07 ==
    SetterClue(<<"r","e","v","e","r","s","a","l">>, <<"Z","Y","X">>,
              <<"X","y","z"," ","b","a","c","k"," ","(","3",")">>, <<>>,
              <<"x","y","z">>, <<"b","a","c","k">>, <<>>)

\* Reversals, BATTEN: "Nettab back (6)"; definition "strip", fodder "nettab", indicator "back",
\* mechanism ""
Clue08 ==
    SetterClue(<<"R","e","v","e","r","s","a","l","s">>, <<"B","A","T","T","E","N">>,
              <<"N","e","t","t","a","b"," ","b","a","c","k"," ","(","6",")">>,
              <<"s","t","r","i","p">>, <<"n","e","t","t","a","b">>,
              <<"b","a","c","k">>, <<>>)

\* Hidden Word, ACE: "Place card holds one (3)"; definition "one", fodder "place card", indicator "holds",
\* mechanism "hidden in place"
Clue09 ==
    SetterClue(<<"H","i","d","d","e","n"," ","W","o","r","d">>, <<"A","C","E">>,
              <<"P","l","a","c","e"," ","c","a","r","d"," ","h","o","l","d","s"," ","o","n","e"," ","(","3",")">>,
              <<"o","n","e">>, <<"p","l","a","c","e"," ","c","a","r","d">>,
              <<"h","o","l","d","s">>,
              <<"h","i","d","d","e","n"," ","i","n"," ","p","l","a","c","e">>)

\* Charade, ENTREATY: "Nurse with treat, y and plea (8)"; definition "plea", fodder "EN + TREAT + Y + S", indicator "with",
\* mechanism "EN (nurse) + TREAT + Y"
Clue10 ==
    SetterClue(<<"C","h","a","r","a","d","e">>, <<"E","N","T","R","E","A","T","Y">>,
              <<"N","u","r","s","e"," ","w","i","t","h"," ","t","r","e","a","t",","," ","y"," ","a","n","d"," ","p","l","e","a"," ","(","8",")">>,
              <<"p","l","e","a">>,
              <<"E","N"," ","+"," ","T","R","E","A","T"," ","+"," ","Y"," ","+"," ","S">>,
              <<"w","i","t","h">>,
              <<"E","N"," ","(","n","u","r","s","e",")"," ","+"," ","T","R","E","A","T"," ","+"," ","Y">>)

\* Charade, NEWS: "Report with n, e, w and s (4)"; definition "report", fodder "N + E + W + S", indicator "with",
\* mechanism ""
Clue11 ==
    SetterClue(<<"C","h","a","r","a","d","e">>, <<"N","E","W","S">>,
              <<"R","e","p","o","r","t"," ","w","i","t","h"," ","n",","," ","e",","," ","w"," ","a","n","d"," ","s"," ","(","4",")">>,
              <<"r","e","p","o","r","t">>,
              <<"N"," ","+"," ","E"," ","+"," ","W"," ","+"," ","S">>,
              <<"w","i","t","h">>, <<>>)

\* Homophone, KNIGHT: "Night heard (6)"; definition "", fodder "night", indicator "heard",
\* mechanism ""
Clue12 ==
    SetterClue(<<"H","o","m","o","p","h","o","n","e">>, <<"K","N","I","G","H","T">>,
              <<"N","i","g","h","t"," ","h","e","a","r","d"," ","(","6",")">>, <<>>,
              <<"n","i","g","h","t">>, <<"h","e","a","r","d">>, <<>>)

\* Container, PAINT: "Coat in pat (5)"; definition "coat", fodder "IN inside PAT", indicator "inside",
\* mechanism ""
Clue13 ==
    SetterClue(<<"C","o","n","t","a","i","n","e","r">>, <<"P","A","I","N","T">>,
              <<"C","o","a","t"," ","i","n"," ","p","a","t"," ","(","5",")">>,
              <<"c","o","a","t">>,
              <<"I","N"," ","i","n","s","i","d","e"," ","P","A","T">>,
              <<"i","n","s","i","d","e">>, <<>>)

\* Double Definition, CATER: "Supply food or look after needs daily for the whole group at dinner (5)"; definition "Supply food", fodder "", indicator "",
\* mechanism ""
Clue14 ==
    SetterClue(<<"D","o","u","b","l","e"," ","D","e","f","i","n","i","t","i","o","n">>,
              <<"C","A","T","E","R">>,
              <<"S","u","p","p","l","y"," ","f","o","o","d"," ","o","r"," ","l","o","o","k"," ","a","f","t","e","r"," ","n","e","e","d","s"," ","d","a","i","l","y"," ","f","o","r"," ","t","h","e"," ","w","h","o","l","e"," ","g","r","o","u","p"," ","a","t"," ","d","i","n","n","e","r"," ","(","5",")">>,
              <<"S","u","p","p","l","y"," ","f","o","o","d">>, <<>>, <<>>, <<>>)

\* Anagram, SILENT: "Mixed listen for the hush (6)"; definition "Hush-hush", fodder "listen", indicator "mixed",
\* mechanism "anagram of strts"
Clue15 ==
    SetterClue(<<"A","n","a","g","r","a","m">>, <<"S","I","L","E","N","T">>,
              <<"M","i","x","e","d"," ","l","i","s","t","e","n"," ","f","o","r"," ","t","h","e"," ","h","u","s","h"," ","(","6",")">>,
              <<"H","u","s","h","-","h","u","s","h">>, <<"l","i","s","t","e","n">>,
              <<"m","i","x","e","d">>,
              <<"a","n","a","g","r","a","m"," ","o","f"," ","s","t","r","t","s">>)

\* Reversal, STRTS: "Strts back (5)"; definition "", fodder "strts", indicator "back",
\* mechanism ""
Clue16 ==
    SetterClue(<<"R","e","v","e","r","s","a","l">>, <<"S","T","R","T","S">>,
              <<"S","t","r","t","s"," ","b","a","c","k"," ","(","5",")">>, <<>>,
              <<"s","t","r","t","s">>, <<"b","a","c","k">>, <<>>)

\* Anagram, ACRE: "Wild race to an acre in ed (4)"; definition "acre", fodder "race ed", indicator "wild",
\* mechanism ""
Clue17 ==
    SetterClue(<<"A","n","a","g","r","a","m">>, <<"A","C","R","E">>,
              <<"W","i","l","d"," ","r","a","c","e"," ","t","o"," ","a","n"," ","a","c","r","e"," ","i","n"," ","e","d"," ","(","4",")">>,
              <<"a","c","r","e">>, <<"r","a","c","e"," ","e","d">>,
              <<"w","i","l","d">>, <<>>)

\* Anagram, ACRE: "Race, ed, wild (4)"; definition "", fodder "race", indicator "wild",
\* mechanism ""
Clue18 ==
    SetterClue(<<"A","n","a","g","r","a","m">>, <<"A","C","R","E">>,
              <<"R","a","c","e",","," ","e","d",","," ","w","i","l","d"," ","(","4",")">>,
              <<>>, <<"r","a","c","e">>, <<"w","i","l","d">>, <<>>)

AuditRecords ==
    {Clue01, Clue02, Clue03, Clue04, Clue05, Clue06, Clue07, Clue08, Clue09, Clue10,
     Clue11, Clue12, Clue13, Clue14, Clue15, Clue16, Clue17, Clue18, EmptyRecord}

\* the backend the Auditor loads: listen, silent, tinsel, bat, tab, dog, god, race, acre, place, card, night, pat, in, treat, inside
Dict_auditor ==
    [loaded |-> TRUE,
     words |-> {<<"l","i","s","t","e","n">>, <<"s","i","l","e","n","t">>,
                <<"t","i","n","s","e","l">>, <<"b","a","t">>, <<"t","a","b">>,
                <<"d","o","g">>, <<"g","o","d">>, <<"r","a","c","e">>,
                <<"a","c","r","e">>, <<"p","l","a","c","e">>, <<"c","a","r","d">>,
                <<"n","i","g","h","t">>, <<"p","a","t">>, <<"i","n">>,
                <<"t","r","e","a","t">>, <<"i","n","s","i","d","e">>}]
AuditorDictionaries == {NoDictionary, Dict_auditor}

\* the texts a completion carries: 'PASS: ok'; 'FAIL: no'; "FAIL: 'passed' is both"; '  pass \n'; 'FAIL\nPASS: x'; 'Unclear'; 'Bypass\nFAIL'
ResponseTexts ==
    {<<"P","A","S","S",":"," ","o","k">>, <<"F","A","I","L",":"," ","n","o">>,
     <<"F","A","I","L",":"," ","'","p","a","s","s","e","d","'"," ","i","s"," ","b","o","t","h">>,
     <<" "," ","p","a","s","s"," ","\n">>,
     <<"F","A","I","L","\n","P","A","S","S",":"," ","x">>,
     <<"U","n","c","l","e","a","r">>, <<"B","y","p","a","s","s","\n","F","A","I","L">>}

ShortestTwo == {<<"P","A","S","S",":"," ","o","k">>, <<"F","A","I","L",":"," ","n","o">>}

\* what a completion request can do: raise, or answer in one of the shapes
\* _extract_response_text tells apart
LlmOutcomes ==
    {LlmRaises("APITimeoutError"), LlmRaises("APIConnectionError"),
     LlmResponse(<<>>),
     LlmResponse(<<Choice(JAbsent, JAbsent)>>),
     LlmResponse(<<Choice(JAbsent, JStr(<<>>))>>),
     LlmResponse(<<Choice(JAbsent, JNull)>>),
     LlmResponse(<<Choice(JAbsent, JList(<<>>))>>),
     LlmResponse(<<Choice(JAbsent, JDict([text |-> JAbsent]))>>),
     LlmResponse(<<Choice(JAbsent, JList(<<JDict([text |-> JAbsent])>>))>>)}
    \cup {LlmResponse(<<Choice(JStr(s), JAbsent)>>) : s \in ResponseTexts}
    \cup {LlmResponse(<<Choice(JAbsent, JStr(s))>>) : s \in ResponseTexts}
    \cup {LlmResponse(<<Choice(JAbsent, JDict([text |-> JStr(s)]))>>) : s \in ShortestTwo}
    \cup {LlmResponse(<<Choice(JAbsent, JList(<<JDict([text |-> JStr(s)])>>))>>) : s \in ShortestTwo}
    \cup {LlmResponse(<<Choice(JAbsent, JList(<<JStr(s)>>))>>) : s \in ShortestTwo}

\* what the request for a refinement can do
RefinementOutcomes ==
    {LlmRaises("APITimeoutError"), LlmResponse(<<>>),
     LlmResponse(<<Choice(JAbsent, JStr(<<" ","H","u","s","h"," ","(","6",")","\n">>))>>)}

\* records for the identity check: a fodder, charade parts or a container pair
IdentityTypes == {<<"A","n","a","g","r","a","m">>,
                  <<"H","i","d","d","e","n"," ","W","o","r","d">>}
IdentityWordplay ==
    {JDict([NoParts EXCEPT !.fodder = JStr(f)]) : f \in FodderStrings}
    \cup {JDict([NoParts EXCEPT !.parts = JList([i \in DOMAIN l |-> JStr(l[i])])]) : l \in PartLists}
    \cup {JDict([NoParts EXCEPT !.outer = JStr(o), !.inner = JStr(i)]) : o, i \in PartPool}
    \cup {JDict([NoParts EXCEPT !.outer = JStr(o)]) : o \in PartPool}
IdentityRecords ==
    {[type |-> JStr(ty), answer |-> JStr(a), clue |-> JAbsent, definition |-> JAbsent,
      wordplay_parts |-> wp] : ty \in IdentityTypes, a \in AnswerPool, wp \in IdentityWordplay}

\* records rated for difficulty beyond the audited ones
\* Charade, ENTREATY: "Nurse with treat and y for an appeal (8)"; definition "earnest request", fodder "EN + TREAT + Y + S", indicator "with",
\* mechanism ""
Clue19 ==
    SetterClue(<<"C","h","a","r","a","d","e">>, <<"E","N","T","R","E","A","T","Y">>,
              <<"N","u","r","s","e"," ","w","i","t","h"," ","t","r","e","a","t"," ","a","n","d"," ","y"," ","f","o","r"," ","a","n"," ","a","p","p","e","a","l"," ","(","8",")">>,
              <<"e","a","r","n","e","s","t"," ","r","e","q","u","e","s","t">>,
              <<"E","N"," ","+"," ","T","R","E","A","T"," ","+"," ","Y"," ","+"," ","S">>,
              <<"w","i","t","h">>, <<>>)

\* Homophone, JJ: "Jj heard (2)"; definition "", fodder "jj", indicator "heard",
\* mechanism ""
Clue20 ==
    SetterClue(<<"H","o","m","o","p","h","o","n","e">>, <<"J","J">>,
              <<"J","j"," ","h","e","a","r","d"," ","(","2",")">>, <<>>, <<"j","j">>,
              <<"h","e","a","r","d">>, <<>>)

\* Hidden, MATCH: "Match found in game at chess"; definition "match", fodder "GAME AT CH", indicator "found in",
\* mechanism "hidden in GAME AT CH"
Clue21 ==
    SetterClue(<<"H","i","d","d","e","n">>, <<"M","A","T","C","H">>,
              <<"M","a","t","c","h"," ","f","o","u","n","d"," ","i","n"," ","g","a","m","e"," ","a","t"," ","c","h","e","s","s">>,
              <<"m","a","t","c","h">>, <<"G","A","M","E"," ","A","T"," ","C","H">>,
              <<"f","o","u","n","d"," ","i","n">>,
              <<"h","i","d","d","e","n"," ","i","n"," ","G","A","M","E"," ","A","T"," ","C","H">>)

DifficultyRecords == {Clue19, Clue20, Clue21}

-----------------------------------------------------------------------------
(* The Auditor as a state machine: one call of one method                  *)

InitAuditor ==
    /\ pc = "ready"
    /\ result = NoResult
    /\ \/ /\ op = "_check_identity_constraint"
          /\ enchant_dict = NoDictionary
          /\ args \in [clue_json : IdentityRecords \cup AuditRecords]
       \/ /\ op = "_check_obscurity"
          /\ enchant_dict \in AuditorDictionaries
          /\ args \in [clue_json : AuditRecords]
       \/ /\ op = "_calculate_difficulty_level"
          /\ enchant_dict \in AuditorDictionaries
          /\ args \in [clue_json : AuditRecords \cup DifficultyRecords]
       \/ /\ op = "_check_double_duty_with_llm"
          /\ enchant_dict = NoDictionary
          /\ args \in [clue_json : {Clue01, EmptyRecord}, llm : LlmOutcomes]
       \/ /\ op = "audit_clue"
          /\ enchant_dict \in AuditorDictionaries
          /\ args \in [clue_json : AuditRecords, llm : LlmOutcomes,
                       llm_refinement : RefinementOutcomes]

AuditorCheckIdentityConstraint ==
    Return("_check_identity_constraint", _check_identity_constraint(args.clue_json))

CheckObscurity ==
    Return("_check_obscurity", _check_obscurity(enchant_dict, args.clue_json))

CalculateDifficultyLevel ==
    Return("_calculate_difficulty_level", _calculate_difficulty_level(args.clue_json))

CheckDoubleDutyWithLlm ==
    Return("_check_double_duty_with_llm", _check_double_duty_with_llm(args.clue_json, args.llm))

AuditClue ==
    Return("audit_clue",
           audit_clue(enchant_dict, args.clue_json, args.llm, args.llm_refinement))

NextAuditor ==
    \/ AuditorCheckIdentityConstraint
    \/ CheckObscurity
    \/ CalculateDifficultyLevel
    \/ CheckDoubleDutyWithLlm
    \/ AuditClue

SpecAuditor == InitAuditor /\ [][NextAuditor]_vars

-----------------------------------------------------------------------------
(* Properties of the Auditor                                               *)

\* the record's wordplay parts hold a non-empty fodder and its type is not a
\* hidden-word type
HoldsFodderAndIsNotHidden(clue_json) ==
    /\ Wordplay(clue_json).fodder.t = "str"
    /\ Len(Wordplay(clue_json).fodder.v) > 0
    /\ ~IsSubstring(T_hidden, lower(Str(clue_json.type)))

\* C4 as stated: for a record with a non-empty fodder and a type that is not a
\* hidden-word type, the Auditor's _check_identity_constraint passes exactly when the
\* Mechanic's check_identity_constraint(fodder, answer) is valid.
C4_AuditorIdentityMirrorsMechanic ==
    (/\ Returned("_check_identity_constraint")
     /\ HoldsFodderAndIsNotHidden(args.clue_json)) =>
        (result.passed <=>
            check_identity_constraint(Wordplay(args.clue_json).fodder.v,
                                      Str(args.clue_json.answer)).is_valid)

\* some fodder word longer than 2 characters is rejected by is_word
HasNonWordFodder(dict, clue_json) ==
    LET fodder_words == LetterWords(lower(Str(Wordplay(clue_json).fodder)))
    IN  \E i \in DOMAIN fodder_words :
            Len(fodder_words[i]) > 2 /\ ~is_word(dict, fodder_words[i])

\* C7 as stated: for a Reversal-type clue, _check_obscurity fails whenever some fodder
\* word longer than 2 characters is rejected by is_word.
C7_ReversalNonWordFodderFails ==
    (/\ Returned("_check_obscurity")
     /\ lower(Str(args.clue_json.type)) = T_reversal
     /\ HasNonWordFodder(enchant_dict, args.clue_json)) =>
        ~result.passed

\* the completion request returned a response whose text can be extracted
LlmAnswered(llm) == llm.kind = "response" /\ _extract_response_text(llm).kind = "str"
\* the completion request raised, or the extraction of its text did
LlmFailed(llm) == ~LlmAnswered(llm)

FirstLineBeginsWith(llm, token) ==
    StartsWith(FirstLine(_extract_response_text(llm).v), token)

\* C8 as stated: a response whose first line begins with FAIL makes
\* _check_double_duty_with_llm return failed, and a response whose first line begins
\* with PASS makes it return passed.
C8_VerdictIsLeadingToken ==
    (Returned("_check_double_duty_with_llm") /\ LlmAnswered(args.llm)) =>
        /\ FirstLineBeginsWith(args.llm, <<"F","A","I","L">>) => ~result.passed
        /\ FirstLineBeginsWith(args.llm, <<"P","A","S","S">>) => result.passed

\* the nine checks that follow the double-duty check gave the AuditResult r their
\* verdicts
RemainingChecksRan(dict, clue_json, r) ==
    /\ r.direction_check = _check_direction(clue_json).passed
    /\ r.indicator_fairness_check = _check_indicator_fairness(clue_json).passed
    /\ r.identity_check = _check_identity_constraint(clue_json).passed
    /\ r.fodder_presence_check = _check_fodder_presence(clue_json).passed
    /\ r.filler_check = _check_filler_words(clue_json).passed
    /\ r.indicator_grammar_check = _check_indicator_grammar(clue_json).passed
    /\ r.narrative_integrity_check = _check_narrative_integrity(dict, clue_json).passed
    /\ r.obscurity_check = _check_obscurity(dict, clue_json).passed
    /\ r.word_validity_check = _check_word_validity(dict, clue_json).passed

\* C9: if the LLM request or the extraction of its response text raises, then
\* _check_double_duty_with_llm returns passed = true with a warning feedback, and
\* audit_clue still runs every remaining check and returns an AuditResult; nothing is
\* raised to the caller.
C9_LlmFailureIsAWarning ==
    /\ (Returned("_check_double_duty_with_llm") /\ LlmFailed(args.llm)) =>
            /\ "passed" \in DOMAIN result
            /\ result.passed
            /\ result.level = "WARN"
    /\ (Returned("audit_clue") /\ LlmFailed(args.llm)) =>
            /\ result.kind = "AuditResult"
            /\ result.double_duty_check
            /\ result.double_duty_feedback.level = "WARN"
            /\ RemainingChecksRan(enchant_dict, args.clue_json, result)

\* an audit whose completion request timed out: the double-duty check passed with a
\* warning and a later check still failed the clue
C9_Witness ==
    /\ Returned("audit_clue")
    /\ args.llm = LlmRaises("APITimeoutError")
    /\ result.kind = "AuditResult"
    /\ result.double_duty_check
    /\ result.double_duty_feedback.level = "WARN"
    /\ ~result.word_validity_check
    /\ ~result.passed

\* C10 as stated: for the end-to-end scenario clue (answer SILENT, type Anagram, clue
\* text 'Confused listen to be quiet (6)', definition 'be quiet', fodder 'listen',
\* indicator 'confused') the computed difficulty level is 4.
C10_ScenarioDifficultyIsFour ==
    (Returned("_calculate_difficulty_level") /\ args.clue_json = Clue01) =>
        result = 4

\* C10 amended: for the end-to-end scenario clue the computed difficulty level is 3:
\* the definition appears verbatim in the lower-cased clue text (-1), at least three
\* priority abbreviations occur in the upper-cased fodder (+1), and neither the type,
\* the length (6 words) nor the number of fodder parts adjusts it; audit_clue reports
\* the same level.
C10_ScenarioDifficultyIsThree ==
    /\ (Returned("_calculate_difficulty_level") /\ args.clue_json = Clue01) =>
            /\ result = 3
            /\ IsSubstring(lower(Str(Clue01.definition)), lower(Str(Clue01.clue)))
            /\ Cardinality({abbr \in PRIORITY_ABBREVIATIONS :
                              IsSubstring(abbr, upper(Str(Wordplay(Clue01).fodder)))}) >= 3
            /\ Len(Split(Str(Clue01.clue))) = 6
    /\ (Returned("audit_clue") /\ args.clue_json = Clue01) =>
            /\ result.kind = "AuditResult"
            /\ result.difficulty_level = 3

\* the scenario clue has been rated
C10_Witness ==
    /\ Returned("_calculate_difficulty_level")
    /\ args.clue_json = Clue01
    /\ Str(args.clue_json.answer) = <<"S","I","L","E","N","T">>
    /\ result = 3

\* the adjustment the type tag is stated to make: -1 for the hidden-word and homophone
\* tags, +1 for the reversal and charade tags
StatedTypeAdjustment(clue_json) ==
    LET clue_type == lower(Str(clue_json.type))
    IN  IF clue_type \in {T_hidden_word, T_hidden, T_homophone} THEN -1
        ELSE IF clue_type \in {T_reversal, T_charade} THEN 1
        ELSE 0

\* the adjustments of the other four factors: definition, abbreviations, length, parts
OtherAdjustments(clue_json) ==
    LET clue_text == lower(Str(clue_json.clue))
        fodder == upper(Str(Wordplay(clue_json).fodder))
    IN  (IF IsSubstring(lower(Str(clue_json.definition)), clue_text) THEN -1 ELSE 1)
        + (IF Cardinality({abbr \in PRIORITY_ABBREVIATIONS : IsSubstring(abbr, fodder)}) >= 3
           THEN 1 ELSE 0)
        + (IF Len(Split(clue_text)) <= 5 THEN -1 ELSE 0)
        + (IF Count(fodder, "+") + 1 >= 4 THEN 1 ELSE 0)

\* C11 as stated: _calculate_difficulty_level lowers the level by 1 for hidden-word and
\* homophone clues and raises it by 1 for reversal and charade clues, for every type tag
\* of the data model that names those mechanisms ('Hidden Word', 'Homophone',
\* 'Reversal', 'Charade'), compared case-insensitively.
C11_TypeTagAdjustsDifficulty ==
    Returned("_calculate_difficulty_level") =>
        result = Max(1, Min(5, 3 + StatedTypeAdjustment(args.clue_json)
                                 + OtherAdjustments(args.clue_json)))

\* the ten verdicts an AuditResult carries
CheckFields ==
    {"direction_check", "double_duty_check", "indicator_fairness_check", "identity_check",
     "fodder_presence_check", "filler_check", "indicator_grammar_check",
     "narrative_integrity_check", "obscurity_check", "word_validity_check"}

\* the number of passing checks of the AuditResult r
PassingChecks(r) == Cardinality({f \in CheckFields : r[f]})

\* C16: audit_clue sets fairness_score to k/10, where k is the number of passing checks
\* among the ten checks it runs (direction, double duty, indicator fairness, identity,
\* fodder presence, filler, grammar, narrative, obscurity, word validity), and sets
\* passed to the conjunction of those ten; so passed is true exactly when fairness_score
\* is 1.0.
C16_FairnessScoreCountsTheTenChecks ==
    Returned("audit_clue") =>
        /\ result.kind = "AuditResult"
        /\ result.double_duty_check =
                _check_double_duty_with_llm(args.clue_json, args.llm).passed
        /\ RemainingChecksRan(enchant_dict, args.clue_json, result)
        /\ result.fairness_score = PassingChecks(result)
        /\ result.passed = (\A f \in CheckFields : result[f])
        /\ result.passed <=> result.fairness_score = 10

\* an audit in which exactly the word-validity check failed: nine tenths, not passed
C16_Witness ==
    /\ Returned("audit_clue")
    /\ result.kind = "AuditResult"
    /\ ~result.word_validity_check
    /\ \A f \in CheckFields \ {"word_validity_check"} : result[f]
    /\ result.fairness_score = 9
    /\ ~result.passed

\* C19: for every clue record (every type, definition, clue text and fodder, including
\* empty ones), _calculate_difficulty_level returns an integer in {1, 2, 3, 4, 5}, and
\* so does the difficulty_level of an audit.
C19_DifficultyLevelIsOneToFive ==
    /\ Returned("_calculate_difficulty_level") => result \in 1..5
    /\ Returned("audit_clue") =>
            /\ result.kind = "AuditResult"
            /\ result.difficulty_level \in 1..5

\* a charade whose definition is paraphrased, with three priority abbreviations and four
\* fodder parts in more than 5 words: the factors sum to 7 and the level is 5
C19_Witness ==
    /\ Returned("_calculate_difficulty_level")
    /\ lower(Str(args.clue_json.type)) = T_charade
    /\ OtherAdjustments(args.clue_json) = 3
    /\ result = 5


\* the keys AuditResult.to_dict writes
ToDictKeys ==
    {"passed", "direction_check", "direction_feedback", "double_duty_check",
     "double_duty_feedback", "indicator_fairness_check", "indicator_fairness_feedback",
     "identity_check", "identity_feedback", "fodder_presence_check",
     "fodder_presence_feedback", "filler_check", "filler_feedback",
     "indicator_grammar_check", "indicator_grammar_feedback",
     "narrative_integrity_check", "narrative_integrity_feedback", "obscurity_check",
     "obscurity_feedback", "fairness_score", "refinement_suggestion", "ximenean_score",
     "difficulty_level", "narrative_fidelity"}

\* AuditResult.to_dict: the dictionary of the AuditResult r
to_dict(r) == [key \in ToDictKeys |-> r[key]]

\* the '*_check' flags of a serialized AuditResult
SerializedChecks(d) == DOMAIN d \cap CheckFields

\* C30: AuditResult.to_dict() serializes every check flag that determines passed: in
\* the serialized dictionary of any AuditResult produced by audit_clue, 'passed' is true
\* exactly when all serialized '*_check' flags are true.
C30_SerializedPassedIsTheSerializedChecks ==
    (Returned("audit_clue") /\ result.kind = "AuditResult") =>
        (to_dict(result).passed
            <=> \A f \in SerializedChecks(to_dict(result)) : to_dict(result)[f])

-----------------------------------------------------------------------------
(* The Auditor's rule-based checks and scores, one call each               *)

\* the words looked up: '', 'a', 'ok', 'strts', 'angsts', 'aeio', 'aeiou', 'queue', 'listen', "it's", 'A1', 'STRTS', 'rhythm', 'bcdf', 'aei', 'co-op', 'Queue', 'tab'
WordPool ==
    {<<>>, <<"a">>, <<"o","k">>, <<"s","t","r","t","s">>, <<"a","n","g","s","t","s">>,
     <<"a","e","i","o">>, <<"a","e","i","o","u">>, <<"q","u","e","u","e">>,
     <<"l","i","s","t","e","n">>, <<"i","t","'","s">>, <<"A","1">>,
     <<"S","T","R","T","S">>, <<"r","h","y","t","h","m">>, <<"b","c","d","f">>,
     <<"a","e","i">>, <<"c","o","-","o","p">>, <<"Q","u","e","u","e">>, <<"t","a","b">>}

\* a backend whose every lookup raises
Dict_broken == [loaded |-> TRUE, words |-> {}, broken |-> TRUE]

\* records for the grammar check: a type, a clue text, a fodder and an indicator
\* types: 'Anagram', 'anagram', 'Reversal', ''
GrammarTypes ==
    {<<"A","n","a","g","r","a","m">>, <<"a","n","a","g","r","a","m">>,
     <<"R","e","v","e","r","s","a","l">>, <<>>}

\* clue texts: 'Confused listen to be quiet (6)', 'Listen confused, be quiet (6)', 'Listen is mixed up (6)', 'Shed listen mixed (6)', 'Listen shed (6)', 'Quiet (6)'
GrammarClues ==
    {
     <<"C","o","n","f","u","s","e","d"," ","l","i","s","t","e","n"," ","t","o"," ","b","e"," ","q","u","i","e","t"," ","(","6",")">>,
     <<"L","i","s","t","e","n"," ","c","o","n","f","u","s","e","d",","," ","b","e"," ","q","u","i","e","t"," ","(","6",")">>,
     <<"L","i","s","t","e","n"," ","i","s"," ","m","i","x","e","d"," ","u","p"," ","(","6",")">>,
     <<"S","h","e","d"," ","l","i","s","t","e","n"," ","m","i","x","e","d"," ","(","6",")">>,
     <<"L","i","s","t","e","n"," ","s","h","e","d"," ","(","6",")">>,
     <<"Q","u","i","e","t"," ","(","6",")">>}

\* fodders: 'listen', 'Listen ', '', 'mix'
GrammarFodders ==
    {<<"l","i","s","t","e","n">>, <<"L","i","s","t","e","n"," ">>, <<>>,
     <<"m","i","x">>}

\* indicators: 'confused', 'mix', 'shed', ' Mixed ', 'is mixed up', 'red', ''
GrammarIndicators ==
    {<<"c","o","n","f","u","s","e","d">>, <<"m","i","x">>, <<"s","h","e","d">>,
     <<" ","M","i","x","e","d"," ">>, <<"i","s"," ","m","i","x","e","d"," ","u","p">>,
     <<"r","e","d">>, <<>>}

GrammarRecords ==
    {SetterClue(ty, <<>>, c, <<>>, f, i, <<>>) :
        ty \in GrammarTypes, c \in GrammarClues, f \in GrammarFodders, i \in GrammarIndicators}
    \cup {EmptyRecord}

\* records for the filler check: a clue text, a definition, a fodder and an indicator
\* clue texts: 'Confused listen to be quiet (6)', 'Confused listen is to be quiet at home (6)', 'Confused listen is to be quiet at (6)', 'Confused listen for the quiet (6)', "Listen confused, it's quiet (6)", 'Confused listen in, to be quiet (6)', ''
FillerClues ==
    {
     <<"C","o","n","f","u","s","e","d"," ","l","i","s","t","e","n"," ","t","o"," ","b","e"," ","q","u","i","e","t"," ","(","6",")">>,
     <<"C","o","n","f","u","s","e","d"," ","l","i","s","t","e","n"," ","i","s"," ","t","o"," ","b","e"," ","q","u","i","e","t"," ","a","t"," ","h","o","m","e"," ","(","6",")">>,
     <<"C","o","n","f","u","s","e","d"," ","l","i","s","t","e","n"," ","i","s"," ","t","o"," ","b","e"," ","q","u","i","e","t"," ","a","t"," ","(","6",")">>,
     <<"C","o","n","f","u","s","e","d"," ","l","i","s","t","e","n"," ","f","o","r"," ","t","h","e"," ","q","u","i","e","t"," ","(","6",")">>,
     <<"L","i","s","t","e","n"," ","c","o","n","f","u","s","e","d",","," ","i","t","'","s"," ","q","u","i","e","t"," ","(","6",")">>,
     <<"C","o","n","f","u","s","e","d"," ","l","i","s","t","e","n"," ","i","n",","," ","t","o"," ","b","e"," ","q","u","i","e","t"," ","(","6",")">>,
     <<>>}

\* definitions: 'be quiet', 'quiet', 'Be quiet at home', ''
FillerDefinitions ==
    {<<"b","e"," ","q","u","i","e","t">>, <<"q","u","i","e","t">>,
     <<"B","e"," ","q","u","i","e","t"," ","a","t"," ","h","o","m","e">>, <<>>}

\* fodders: 'listen', 'listen to', ''
FillerFodders ==
    {<<"l","i","s","t","e","n">>, <<"l","i","s","t","e","n"," ","t","o">>, <<>>}

\* indicators: 'confused', 'is confused', ''
FillerIndicators ==
    {<<"c","o","n","f","u","s","e","d">>,
     <<"i","s"," ","c","o","n","f","u","s","e","d">>, <<>>}

FillerRecords ==
    {SetterClue(<<>>, <<>>, c, d, f, i, <<>>) :
        c \in FillerClues, d \in FillerDefinitions, f \in FillerFodders, i \in FillerIndicators}
    \cup {EmptyRecord}

\* records for the direction check: an indicator next to a fodder, a mechanism and a
\* clue text that may name directions themselves
\* indicators: 'confused', 'on', 'going up', 'Up', 'scones', 'rising', 'put on top', 'upon', '', 'Over-turned', 'lift_up'
DirectionIndicators ==
    {<<"c","o","n","f","u","s","e","d">>, <<"o","n">>,
     <<"g","o","i","n","g"," ","u","p">>, <<"U","p">>, <<"s","c","o","n","e","s">>,
     <<"r","i","s","i","n","g">>, <<"p","u","t"," ","o","n"," ","t","o","p">>,
     <<"u","p","o","n">>, <<>>, <<"O","v","e","r","-","t","u","r","n","e","d">>,
     <<"l","i","f","t","_","u","p">>}

\* fodders: 'listen', 'on'
DirectionFodders ==
    {<<"l","i","s","t","e","n">>, <<"o","n">>}

\* mechanisms: '', 'going up'
DirectionMechanisms ==
    {<<>>, <<"g","o","i","n","g"," ","u","p">>}

\* clue texts: 'Listen (6)', 'Rising on top (6)'
DirectionClues ==
    {<<"L","i","s","t","e","n"," ","(","6",")">>,
     <<"R","i","s","i","n","g"," ","o","n"," ","t","o","p"," ","(","6",")">>}

DirectionRecords ==
    {SetterClue(<<>>, <<>>, c, <<>>, f, i, m) :
        c \in DirectionClues, f \in DirectionFodders, i \in DirectionIndicators,
        m \in DirectionMechanisms}
    \cup {EmptyRecord}

\* records of graded length for the scores: 5, 6, 8, 9, 10, 11 and 13 words before
\* the enumeration
\* Anagram, SILENT: "Confused listen to be very quiet (6)"; definition "be very quiet", fodder "listen", indicator "confused",
\* mechanism ""
Clue22 ==
    SetterClue(<<"A","n","a","g","r","a","m">>, <<"S","I","L","E","N","T">>,
              <<"C","o","n","f","u","s","e","d"," ","l","i","s","t","e","n"," ","t","o"," ","b","e"," ","v","e","r","y"," ","q","u","i","e","t"," ","(","6",")">>,
              <<"b","e"," ","v","e","r","y"," ","q","u","i","e","t">>,
              <<"l","i","s","t","e","n">>, <<"c","o","n","f","u","s","e","d">>, <<>>)

\* Charade, ENTREATY: "Nurse with treat and y for an appeal today (8)"; definition "appeal", fodder "EN + TREAT + Y", indicator "with",
\* mechanism ""
Clue23 ==
    SetterClue(<<"C","h","a","r","a","d","e">>, <<"E","N","T","R","E","A","T","Y">>,
              <<"N","u","r","s","e"," ","w","i","t","h"," ","t","r","e","a","t"," ","a","n","d"," ","y"," ","f","o","r"," ","a","n"," ","a","p","p","e","a","l"," ","t","o","d","a","y"," ","(","8",")">>,
              <<"a","p","p","e","a","l">>,
              <<"E","N"," ","+"," ","T","R","E","A","T"," ","+"," ","Y">>,
              <<"w","i","t","h">>, <<>>)

\* Charade, ENTREATY: "Nurse with treat and y for an appeal in court (8)"; definition "appeal", fodder "EN + TREAT + Y", indicator "with",
\* mechanism ""
Clue24 ==
    SetterClue(<<"C","h","a","r","a","d","e">>, <<"E","N","T","R","E","A","T","Y">>,
              <<"N","u","r","s","e"," ","w","i","t","h"," ","t","r","e","a","t"," ","a","n","d"," ","y"," ","f","o","r"," ","a","n"," ","a","p","p","e","a","l"," ","i","n"," ","c","o","u","r","t"," ","(","8",")">>,
              <<"a","p","p","e","a","l">>,
              <<"E","N"," ","+"," ","T","R","E","A","T"," ","+"," ","Y">>,
              <<"w","i","t","h">>, <<>>)

\* Charade, ENTREATY: "Nurse with treat and y for an appeal in court today (8)"; definition "appeal", fodder "EN + TREAT + Y", indicator "with",
\* mechanism ""
Clue25 ==
    SetterClue(<<"C","h","a","r","a","d","e">>, <<"E","N","T","R","E","A","T","Y">>,
              <<"N","u","r","s","e"," ","w","i","t","h"," ","t","r","e","a","t"," ","a","n","d"," ","y"," ","f","o","r"," ","a","n"," ","a","p","p","e","a","l"," ","i","n"," ","c","o","u","r","t"," ","t","o","d","a","y"," ","(","8",")">>,
              <<"a","p","p","e","a","l">>,
              <<"E","N"," ","+"," ","T","R","E","A","T"," ","+"," ","Y">>,
              <<"w","i","t","h">>, <<>>)

ScoreRecords == {Clue15, Clue22, Clue19, Clue23, Clue24, Clue25, Clue14, EmptyRecord}

\* the verdicts audit_clue hands to the scores, by name
CheckNames ==
    {"direction", "double_duty", "fairness", "identity", "fodder", "filler", "grammar",
     "narrative", "obscurity", "word_validity"}
CheckDicts == [CheckNames -> BOOLEAN]

InitChecks ==
    /\ pc = "ready"
    /\ result = NoResult
    /\ \/ /\ op = "is_word"
          /\ enchant_dict \in {NoDictionary, Dict_auditor, Dict_broken}
          /\ args \in [word : WordPool]
       \/ /\ op = "_check_indicator_grammar"
          /\ enchant_dict = NoDictionary
          /\ args \in [clue_json : GrammarRecords]
       \/ /\ op = "_check_filler_words"
          /\ enchant_dict = NoDictionary
          /\ args \in [clue_json : FillerRecords]
       \/ /\ op = "_check_direction"
          /\ enchant_dict = NoDictionary
          /\ args \in [clue_json : DirectionRecords]
       \/ /\ op \in {"_calculate_ximenean_score", "_calculate_narrative_fidelity"}
          /\ enchant_dict = NoDictionary
          /\ args \in [clue_json : ScoreRecords, checks : CheckDicts]

IsWord == Return("is_word", is_word(enchant_dict, args.word))

CheckIndicatorGrammar ==
    Return("_check_indicator_grammar", _check_indicator_grammar(args.clue_json))

CheckFillerWords ==
    Return("_check_filler_words", _check_filler_words(args.clue_json))

CheckDirection ==
    Return("_check_direction", _check_direction(args.clue_json))

CalculateXimeneanScore ==
    Return("_calculate_ximenean_score",
           _calculate_ximenean_score(args.clue_json, args.checks))

CalculateNarrativeFidelity ==
    Return("_calculate_narrative_fidelity",
           _calculate_narrative_fidelity(args.clue_json, args.checks))

NextChecks ==
    \/ IsWord
    \/ CheckIndicatorGrammar
    \/ CheckFillerWords
    \/ CheckDirection
    \/ CalculateXimeneanScore
    \/ CalculateNarrativeFidelity

SpecChecks == InitChecks /\ [][NextChecks]_vars

-----------------------------------------------------------------------------
(* Properties of the checks and scores                                     *)

\* w, lower-cased, holds n or more consecutive characters of the set
HasRunOf(w, set, n) ==
    \E i \in 1..(Len(w) - n + 1) : \A k \in i..(i + n - 1) : lower(w)[k] \in set

\* w, lower-cased, is made of n or more characters, all of the set
IsWhollyOf(w, set, n) ==
    Len(w) >= n /\ SelectSeq(lower(w), LAMBDA c : c \notin set) = <<>>

\* no dictionary answers the lookup: none is loaded, or the loaded one raises
NoBackendAnswers == ~enchant_dict.loaded \/ check_raises(enchant_dict)

\* C12 as stated: when no dictionary backend is available, is_word(w) returns false
\* exactly when w has fewer than 2 characters, contains 5 or more consecutive
\* consonants, contains 4 or more consecutive vowels, or contains a non-alphabetic
\* character; for every other word it returns true.
C12_FallbackRejectsRunsAnywhere ==
    (Returned("is_word") /\ ~enchant_dict.loaded) =>
        (result = FALSE <=>
            \/ Len(args.word) < 2
            \/ HasRunOf(args.word, Consonants, 5)
            \/ HasRunOf(args.word, Vowels, 4)
            \/ \E i \in DOMAIN args.word : ~IsLetter(args.word[i]))

\* C12 amended: when no dictionary backend answers, is_word(w) returns false exactly
\* when w has fewer than 2 characters, consists wholly of 5 or more consonants,
\* consists wholly of 4 or more vowels, or contains a character that is not a letter
\* a-z after lower-casing; for every other word it returns true.
C12_FallbackRejectsWhollyGibberish ==
    (Returned("is_word") /\ NoBackendAnswers) =>
        (result = FALSE <=>
            \/ Len(args.word) < 2
            \/ IsWhollyOf(args.word, Consonants, 5)
            \/ IsWhollyOf(args.word, Vowels, 4)
            \/ \E i \in DOMAIN args.word : ~IsLetter(args.word[i]))

\* without a backend, a word holding five consecutive consonants next to a vowel has
\* been accepted
C12_Witness ==
    /\ Returned("is_word")
    /\ ~enchant_dict.loaded
    /\ HasRunOf(args.word, Consonants, 5)
    /\ ~IsWhollyOf(args.word, Consonants, 5)
    /\ result = TRUE

\* the places where a occurs in text
Occurrences(a, text) ==
    {i \in 1..(Len(text) - Len(a) + 1) : SubSeq(text, i, i + Len(a) - 1) = a}

\* a occurs in text, and first occurs before b first does
AppearsBefore(a, b, text) ==
    \E i \in Occurrences(a, text) : \A j \in Occurrences(b, text) : i < j

\* a word ending in 'ed', longer than 3 letters, outside red/bed/fed/led/wed/bred/shed
IsPastParticiple(word) ==
    /\ Len(word) > 3
    /\ SubSeq(word, Len(word) - 1, Len(word)) = <<"e","d">>
    /\ word \notin {<<"b","r","e","d">>, <<"s","h","e","d">>}

\* the one case in which the grammar check is stated to fail
StatedGrammarFailure(clue_json) ==
    LET clue_text == lower(Str(clue_json.clue))
        indicator == Strip(lower(Str(Wordplay(clue_json).indicator)))
        fodder == Strip(lower(Str(Wordplay(clue_json).fodder)))
    IN  /\ lower(Str(clue_json.type)) = T_anagram
        /\ indicator # <<>> /\ fodder # <<>>
        /\ Occurrences(indicator, clue_text) # {}
        /\ Occurrences(fodder, clue_text) # {}
        /\ \E k \in DOMAIN Split(indicator) : IsPastParticiple(Split(indicator)[k])
        /\ ~AppearsBefore(indicator, fodder, clue_text)

\* C13: _check_indicator_grammar fails only for Anagram-type clues, and only when the
\* indicator contains a past-participle word (ends in 'ed', longer than 3 letters, not
\* one of red/bed/fed/led/wed/bred/shed) and the indicator does not appear before the
\* fodder in the clue text; it passes whenever the indicator appears before the fodder,
\* the type is not Anagram, or indicator or fodder is empty or cannot be located in the
\* clue text.
C13_GrammarFailsOnlyForTrailingParticiple ==
    Returned("_check_indicator_grammar") =>
        (~result.passed <=> StatedGrammarFailure(args.clue_json))

\* an anagram clue whose past-participle indicator follows the fodder has failed
C13_Witness ==
    /\ Returned("_check_indicator_grammar")
    /\ lower(Str(args.clue_json.type)) = T_anagram
    /\ Strip(lower(Str(Wordplay(args.clue_json).indicator))) = <<"c","o","n","f","u","s","e","d">>
    /\ ~AppearsBefore(<<"c","o","n","f","u","s","e","d">>,
                      Strip(lower(Str(Wordplay(args.clue_json).fodder))),
                      lower(Str(args.clue_json.clue)))
    /\ ~result.passed

\* the distinct words of a text
WordsOf(text) == {w \in Range(WordRuns(lower(text))) : AllLower(w)}

\* the distinct clue-text words that are not words of the definition, the fodder or the
\* indicator
UnaccountedWords(clue_json) ==
    {w \in WordsOf(Str(clue_json.clue)) :
        /\ w \notin WordsOf(Str(clue_json.definition))
        /\ w \notin WordsOf(Str(Wordplay(clue_json).fodder))
        /\ w \notin WordsOf(Str(Wordplay(clue_json).indicator))}

\* C14: _check_filler_words fails exactly when, among the distinct clue-text words that
\* are not words of the definition, the fodder or the indicator, more than 2 are
\* allowed connectors or at least one is not an allowed connector; otherwise it passes.
C14_FillerFailsOnThreeConnectorsOrAnyFiller ==
    Returned("_check_filler_words") =>
        (~result.passed <=>
            \/ Cardinality({w \in UnaccountedWords(args.clue_json) :
                                w \in ALLOWED_CONNECTORS}) > 2
            \/ \E w \in UnaccountedWords(args.clue_json) : w \notin ALLOWED_CONNECTORS)

\* a clue whose only unaccounted words are three allowed connectors has failed
C14_Witness ==
    /\ Returned("_check_filler_words")
    /\ Cardinality(UnaccountedWords(args.clue_json)) = 3
    /\ UnaccountedWords(args.clue_json) \subseteq ALLOWED_CONNECTORS
    /\ ~result.passed

\* term occurs in text with no word character right before or right after it
OccursAsWholeWord(term, text) ==
    \E i \in Occurrences(term, text) :
        /\ (i > 1 => ~IsWordChar(text[i - 1]))
        /\ (i + Len(term) <= Len(text) => ~IsWordChar(text[i + Len(term)]))

\* the indicator field of a record
IndicatorOf(clue_json) == Str(Wordplay(clue_json).indicator)

\* C15: _check_direction fails exactly when some term of the directional blocklist
\* occurs in the indicator field as a whole word (word-boundary, case-insensitive
\* match); its verdict is the same for any two clue records with the same indicator,
\* whatever their fodder, mechanism and clue text, and a blocklisted term that is only a
\* substring of a longer indicator word (e.g. 'on' in 'confused') never triggers it.
C15_DirectionReadsOnlyTheIndicator ==
    Returned("_check_direction") =>
        /\ ~result.passed <=>
                \E term \in DIRECTIONAL_BLOCKLIST :
                    OccursAsWholeWord(term, lower(IndicatorOf(args.clue_json)))
        /\ \A other \in DirectionRecords :
                IndicatorOf(other) = IndicatorOf(args.clue_json) =>
                    _check_direction(other).passed = result.passed
        /\ (\A term \in DIRECTIONAL_BLOCKLIST :
                IF " " \in Range(term)
                THEN ~IsSubstring(term, lower(IndicatorOf(args.clue_json)))
                ELSE term \notin Range(WordRuns(lower(IndicatorOf(args.clue_json)))))
           => result.passed

\* a record whose indicator holds 'on' only inside 'confused', while its fodder is 'on',
\* its mechanism 'going up' and its clue text names 'rising', has passed
C15_Witness ==
    /\ Returned("_check_direction")
    /\ IndicatorOf(args.clue_json) = <<"c","o","n","f","u","s","e","d">>
    /\ Str(Wordplay(args.clue_json).fodder) = <<"o","n">>
    /\ Str(Wordplay(args.clue_json).mechanism) = <<"g","o","i","n","g"," ","u","p">>
    /\ OccursAsWholeWord(<<"r","i","s","i","n","g">>, lower(Str(args.clue_json.clue)))
    /\ result.passed

\* the number of words of the clue text, enumeration aside
ClueWordCount(clue_json) == Cardinality(DOMAIN LetterWords(lower(Str(clue_json.clue))))

\* the penalty a failed check carries, in hundredths
Penalty(checks, name, amount) == IF checks[name] THEN 0 ELSE amount

\* P of the Ximenean score, in hundredths
StatedXimeneanPenalty(clue_json, checks) ==
    Penalty(checks, "grammar", 30) + Penalty(checks, "fodder", 40)
    + Penalty(checks, "word_validity", 50) + Penalty(checks, "obscurity", 20)
    + Penalty(checks, "narrative", 25)
    + Penalty(checks, "filler", IF ClueWordCount(clue_json) <= 8 THEN 15
                                ELSE IF ClueWordCount(clue_json) <= 10 THEN 20
                                ELSE 30)

\* the six checks the Ximenean score penalizes
PenalizedChecks == {"filler", "grammar", "fodder", "word_validity", "obscurity", "narrative"}

\* C17: ximenean_score equals max(0, 1 - P), where P sums 0.30 for a grammar failure,
\* 0.40 for a fodder-presence failure, 0.50 for a word-validity failure, 0.20 for an
\* obscurity failure, 0.25 for a narrative failure and, for a filler failure, 0.15 /
\* 0.20 / 0.30 when the clue has at most 8 / 9 to 10 / more than 10 words; hence it
\* always lies in [0, 1] and is exactly 0 when every penalized check fails. (Scores are
\* in hundredths.)
C17_XimeneanScoreIsClampedPenaltySum ==
    Returned("_calculate_ximenean_score") =>
        LET P == StatedXimeneanPenalty(args.clue_json, args.checks)
        IN  /\ result = (IF P > 100 THEN 0 ELSE 100 - P)
            /\ result \in 0..100
            /\ (\A name \in PenalizedChecks : ~args.checks[name]) => result = 0

\* every penalized check failed on a clue of at most 8 words: the penalties sum to
\* 1.80 and the score is 0
C17_Witness ==
    /\ Returned("_calculate_ximenean_score")
    /\ \A name \in PenalizedChecks : ~args.checks[name]
    /\ ClueWordCount(args.clue_json) \in 1..8
    /\ StatedXimeneanPenalty(args.clue_json, args.checks) = 180
    /\ result = 0

\* the number of whitespace-separated words of the clue text
ClueTokenCount(clue_json) == Len(Split(Str(clue_json.clue)))

\* 100 less the stated penalties, plus the bonus or less the penalty for length
StatedFidelity(clue_json, checks) ==
    100 - Penalty(checks, "narrative", 40) - Penalty(checks, "filler", 20)
        - Penalty(checks, "grammar", 15) - Penalty(checks, "double_duty", 10)
        - Penalty(checks, "obscurity", 10)
        + (IF ClueTokenCount(clue_json) <= 6 THEN 5 ELSE 0)
        - (IF ClueTokenCount(clue_json) >= 12 THEN 10 ELSE 0)

\* C18: narrative_fidelity equals 100 minus 40 (narrative failure), 20 (filler
\* failure), 15 (grammar failure), 10 (double-duty failure) and 10 (obscurity failure),
\* plus 5 if the clue has at most 6 words or minus 10 if it has at least 12 words,
\* clamped to [0, 100]; in particular it never exceeds 100 and never goes below 0 for
\* any combination of check outcomes and clue length.
C18_NarrativeFidelityIsClamped ==
    Returned("_calculate_narrative_fidelity") =>
        LET F == StatedFidelity(args.clue_json, args.checks)
        IN  /\ result = (IF F < 0 THEN 0 ELSE IF F > 100 THEN 100 ELSE F)
            /\ result \in 0..100

\* all five penalized checks failed on a clue of 12 words or more: 100 - 95 - 10 is
\* below 0 and the fidelity is 0
C18_Witness ==
    /\ Returned("_calculate_narrative_fidelity")
    /\ ClueTokenCount(args.clue_json) >= 12
    /\ StatedFidelity(args.clue_json, args.checks) = -5
    /\ result = 0

-----------------------------------------------------------------------------
(* src/main.py: process_batch_async, the audits of a batch run from the     *)
(* threads of one executor, all sharing one XimeneanAuditor                *)

\* the threads of the executor that are running an audit
MaxThreads == 2
Threads == 1..MaxThreads

\* the records of the batch and what the two completion requests of an audit do: the
\* double-duty verdict is given, the same for every audit
BatchRecords == {Clue07, Clue18}
BatchLlmOutcome ==
    LlmResponse(<<Choice(JAbsent, JStr(<<"F","A","I","L",":"," ","n","o">>))>>)
BatchRefinementOutcome ==
    LlmResponse(<<Choice(JAbsent, JStr(<<" ","H","u","s","h"," ","(","6",")","\n">>))>>)

\* the record the audit of thread t was called with, as every thread would read it if
\* the auditor kept the record of the first call in a field of its own
audited_record_kept_in_a_field(calls, t) == calls[1].clue_json

\* the record the audit of thread t was called with: the parameter clue_json, local to
\* the call
audited_record(calls, t) == calls[t].clue_json

\* the locals of audit_clue before its first check
NoLocals ==
    [direction |-> NoResult, double_duty |-> NoResult, fairness |-> NoResult,
     identity |-> NoResult, fodder |-> NoResult, filler |-> NoResult,
     grammar |-> NoResult, narrative |-> NoResult, obscurity |-> NoResult,
     word_validity |-> NoResult]

\* pc[t] is the check thread t makes next, result[t] the locals of its audit and, once
\* done, the AuditResult it returns; enchant_dict is the field of the shared auditor
InitBatch ==
    /\ op = "process_batch_async"
    /\ enchant_dict \in AuditorDictionaries
    /\ args \in [Threads -> [clue_json : BatchRecords, llm : {BatchLlmOutcome},
                             llm_refinement : {BatchRefinementOutcome}]]
    /\ pc = [t \in Threads |-> "direction"]
    /\ result = [t \in Threads |-> NoLocals]

\* thread t makes the check named at, keeps its pair in a local and moves on
AuditStep(t, at, next, pair) ==
    /\ pc[t] = at
    /\ result' = [result EXCEPT ![t][at] = pair]
    /\ pc' = [pc EXCEPT ![t] = next]
    /\ UNCHANGED <<op, enchant_dict, args>>

BatchCheckDirection ==
    \E t \in Threads :
        AuditStep(t, "direction", "double_duty", _check_direction(audited_record(args, t)))

\* an exception of the completion request leaves the audit at once
BatchCheckDoubleDuty ==
    \E t \in Threads :
        LET pair == _check_double_duty_with_llm(audited_record(args, t), args[t].llm)
        IN  IF "exc" \in DOMAIN pair
            THEN /\ pc[t] = "double_duty"
                 /\ result' = [result EXCEPT ![t] = pair]
                 /\ pc' = [pc EXCEPT ![t] = "done"]
                 /\ UNCHANGED <<op, enchant_dict, args>>
            ELSE AuditStep(t, "double_duty", "fairness", pair)

BatchCheckIndicatorFairness ==
    \E t \in Threads :
        AuditStep(t, "fairness", "identity",
                  _check_indicator_fairness(audited_record(args, t)))

BatchCheckIdentityConstraint ==
    \E t \in Threads :
        AuditStep(t, "identity", "fodder",
                  _check_identity_constraint(audited_record(args, t)))

BatchCheckFodderPresence ==
    \E t \in Threads :
        AuditStep(t, "fodder", "filler", _check_fodder_presence(audited_record(args, t)))

BatchCheckFillerWords ==
    \E t \in Threads :
        AuditStep(t, "filler", "grammar", _check_filler_words(audited_record(args, t)))

BatchCheckIndicatorGrammar ==
    \E t \in Threads :
        AuditStep(t, "grammar", "narrative",
                  _check_indicator_grammar(audited_record(args, t)))

BatchCheckNarrativeIntegrity ==
    \E t \in Threads :
        AuditStep(t, "narrative", "obscurity",
                  _check_narrative_integrity(enchant_dict, audited_record(args, t)))

BatchCheckObscurity ==
    \E t \in Threads :
        AuditStep(t, "obscurity", "word_validity",
                  _check_obscurity(enchant_dict, audited_record(args, t)))

BatchCheckWordValidity ==
    \E t \in Threads :
        AuditStep(t, "word_validity", "scores",
                  _check_word_validity(enchant_dict, audited_record(args, t)))

\* the scores, the refinement and the AuditResult, which the call returns
BatchReturnAuditResult ==
    \E t \in Threads :
        /\ pc[t] = "scores"
        /\ result' = [result EXCEPT
                        ![t] = audit_result(audited_record(args, t), result[t],
                                            args[t].llm_refinement)]
        /\ pc' = [pc EXCEPT ![t] = "done"]
        /\ UNCHANGED <<op, enchant_dict, args>>

NextBatch ==
    \/ BatchCheckDirection
    \/ BatchCheckDoubleDuty
    \/ BatchCheckIndicatorFairness
    \/ BatchCheckIdentityConstraint
    \/ BatchCheckFodderPresence
    \/ BatchCheckFillerWords
    \/ BatchCheckIndicatorGrammar
    \/ BatchCheckNarrativeIntegrity
    \/ BatchCheckObscurity
    \/ BatchCheckWordValidity
    \/ BatchReturnAuditResult

SpecBatch == InitBatch /\ [][NextBatch]_vars

-----------------------------------------------------------------------------
(* Properties of the batch                                                 *)

\* the AuditResult the audit of thread t returns when it runs alone
AuditAlone(t) ==
    audit_clue(enchant_dict, args[t].clue_json, args[t].llm, args[t].llm_refinement)

\* C20: audit_clue is stateless and independent: it modifies neither the clue record it
\* is given nor any field of the auditor, so when audits of several records are
\* interleaved in any order (or run from several threads sharing one auditor, as
\* process_batch_async does), each returns the same AuditResult it would return when run
\* alone, given the same double-duty verdict.
C20_InterleavedAuditsAreIndependent ==
    /\ [](\A t \in Threads : pc[t] = "done" => result[t] = AuditAlone(t))
    /\ [][enchant_dict' = enchant_dict /\ args' = args]_vars

\* thread 2 has returned the result of its audit, run between two checks of the audit
\* thread 1 is making of another record, for which the result would differ
C20_Witness ==
    /\ op = "process_batch_async"
    /\ pc[1] = "filler"
    /\ pc[2] = "done"
    /\ args[1].clue_json # args[2].clue_json
    /\ result[2] = AuditAlone(2)
    /\ result[2] # audit_clue(enchant_dict, args[1].clue_json, args[2].llm,
                              args[2].llm_refinement)

-----------------------------------------------------------------------------
(* src/main.py: process_single_clue_sync, the pipeline of one word: wordplay, *)
(* mechanical validation, surface, solver, referee, audit and regeneration   *)

\* the largest max_regenerations a call is given
MaxRegenerations == 1
max_wordplay_attempts == 3

\* f"({len(word)})"
derived_enumeration(word) == <<"(">> \o format_int(Len(word)) \o <<")">>

\* calculate_length: re.sub(r'[^A-Za-z]', '', answer), then len
calculate_length(answer) == Len(SelectSeq(answer, IsLetter))

\* None
None == [kind |-> "None"]

\* src/referee.py: re.sub(r'[^A-Z]', '', answer.upper())
normalize_answer(answer) == SelectSeq(upper(answer), LAMBDA c : c \in UpperSet)

RefereeResult(passed, original_answer, solver_answer, feedback) ==
    [kind |-> "RefereeResult", passed |-> passed, original_answer |-> original_answer,
     solver_answer |-> solver_answer, feedback |-> feedback]

\* the referee as it would be if it passed whatever the solver answered
referee_lenient(original_answer, solver_answer) ==
    RefereeResult(TRUE, original_answer, solver_answer, "Exact match")

\* strict comparison of the two answers
referee(original_answer, solver_answer) ==
    IF normalize_answer(original_answer) = normalize_answer(solver_answer)
    THEN RefereeResult(TRUE, original_answer, solver_answer, "Exact match")
    ELSE RefereeResult(FALSE, original_answer, solver_answer, "Mismatch")

\* referee_with_validation as it would be if a solution without an answer passed
referee_with_validation_passing_no_answer(clue_json, solution_json) ==
    LET original_answer == Get(clue_json.answer, JStr(<<>>))
        solver_answer == Get(solution_json.answer, JStr(<<>>))
    IN  IF ~Truthy(solver_answer)
        THEN RefereeResult(TRUE, original_answer.v, <<>>, "Exact match")
        ELSE referee(original_answer.v, solver_answer.v)

\* solution_json is the mapping the solver returned; its answer is a JStr, JNull or JAbsent
referee_with_validation(clue_json, solution_json) ==
    LET original_answer == Get(clue_json.answer, JStr(<<>>))
        solver_answer == Get(solution_json.answer, JStr(<<>>))
    IN  IF ~Truthy(original_answer)
        \* solver_answer as the solution holds it: None for "answer": null
        THEN RefereeResult(FALSE, <<"U","N","K","N","O","W","N">>,
                           IF solver_answer.t = "null" THEN None ELSE solver_answer.v,
                           "Error: No original answer provided for comparison")
        ELSE IF ~Truthy(solver_answer)
        THEN RefereeResult(FALSE, original_answer.v, <<"N","O","_","A","N","S","W","E","R">>,
                           "Error: Solver failed to provide an answer")
        ELSE referee(original_answer.v, solver_answer.v)

ClueResult(word, clue_type, clue_json, mechanical_valid, solution_json, referee_result,
           audit, passed, error, regeneration_count, length) ==
    [kind |-> "ClueResult", word |-> word, clue_type |-> clue_type, clue_json |-> clue_json,
     mechanical_valid |-> mechanical_valid, solution_json |-> solution_json,
     referee_result |-> referee_result, audit_result |-> audit, passed |-> passed,
     error |-> error, regeneration_count |-> regeneration_count, length |-> length]

\* the result of the except clause: every field but the error at its default
ClueResultOfException(word, clue_type, exc, regeneration_count) ==
    ClueResult(word, clue_type, None, FALSE, None, None, None, FALSE, exc,
               regeneration_count, None)

\* the line f"{name}: {result.message}" of a failed check
failed_line(clue_json, enumeration, name, r) ==
    [name |-> name, message |-> r.message,
     text |-> (IF name = "length" THEN <<"l","e","n","g","t","h">>
               ELSE <<"w","o","r","d","p","l","a","y">>)
              \o <<":", " ">> \o message_text(clue_json, enumeration, r)]

\* last_error as it would be if it held the line of the wordplay check alone
mechanical_failure_wordplay_only(clue_json, enumeration, validation_results) ==
    [kind |-> "last_error",
     failed_checks |-> IF ~validation_results.wordplay.is_valid
                       THEN <<failed_line(clue_json, enumeration, "wordplay",
                                          validation_results.wordplay)>>
                       ELSE <<>>,
     guidance |-> ""]

\* last_error: "Mechanical validation failed:" with a line "name: message" for each failed
\* check of validate_clue_complete(clue_json, enumeration), and the guidance chosen by
\* searching the text of those lines
mechanical_failure(clue_json, enumeration, validation_results) ==
    LET failed(name) == /\ validation_results[name].kind = "ValidationResult"
                        /\ ~validation_results[name].is_valid
        line(name) == failed_line(clue_json, enumeration, name, validation_results[name])
        failed_checks == (IF failed("length") THEN <<line("length")>> ELSE <<>>)
                         \o (IF failed("wordplay") THEN <<line("wordplay")>> ELSE <<>>)
        error_detail == Join(<<"\n">>, [i \in DOMAIN failed_checks |-> failed_checks[i].text])
        holds(w) == IsSubstring(w, error_detail)
    IN  [kind |-> "last_error", failed_checks |-> failed_checks,
         guidance |-> IF holds(<<"H","i","d","d","e","n">>) \/ holds(<<"h","i","d","d","e","n">>)
                      THEN "hidden word"
                      ELSE IF \/ holds(<<"A","n","a","g","r","a","m">>)
                              \/ holds(<<"a","n","a","g","r","a","m">>)
                              \/ holds(<<"L","e","t","t","e","r","s">>)
                      THEN "anagram"
                      ELSE ""]

\* the pre-surface check of a hidden word: word.upper() in the fodder without spaces and
\* hyphens, in upper case
pre_surface_check(word, clue_type, wordplay_parts) ==
    IF lower(clue_type) \in {T_hidden_word, T_hidden}
    THEN LET fodder == Str(Get(wordplay_parts, EmptyDict).v.fodder)
             fodder_no_spaces == upper(SelectSeq(fodder, LAMBDA c : c \notin {" ", "-"}))
         IN  IsSubstring(upper(word), fodder_no_spaces)
    ELSE TRUE

\* the feedback built from a failed audit: the parts that " | ".join joins
audit_feedback(audit) ==
    (IF ~audit.direction_check THEN <<audit.direction_feedback>> ELSE <<>>)
    \o (IF ~audit.double_duty_check THEN <<audit.double_duty_feedback>> ELSE <<>>)
    \o (IF ~audit.indicator_fairness_check THEN <<audit.indicator_fairness_feedback>>
        ELSE <<>>)

\* the calls of the pipeline: word, clue type and the enumeration given (None: derive it)
W_race == <<"r","a","c","e">>
W_go_on == <<"g","o"," ","o","n">>
W_sent == <<"s","e","n","t">>
Ty_Anagram == <<"A","n","a","g","r","a","m">>
Ty_Hidden_Word == <<"H","i","d","d","e","n"," ","W","o","r","d">>
\* a type the pre-surface check knows and validate_clue does not
Ty_Hidden == <<"H","i","d","d","e","n">>
PipelineCalls ==
    {[word |-> W_race, clue_type |-> Ty_Anagram, enumeration |-> JNull],
     [word |-> W_go_on, clue_type |-> Ty_Anagram, enumeration |-> JNull],
     [word |-> W_go_on, clue_type |-> Ty_Anagram,
      enumeration |-> JStr(<<"(","2",",","2",")">>)],
     [word |-> W_sent, clue_type |-> Ty_Hidden_Word, enumeration |-> JNull],
     [word |-> W_sent, clue_type |-> Ty_Hidden, enumeration |-> JNull]}

\* the fodders the setter may propose for a word: acre, race / no go, go on /
\* tales entered, tale's entered, sent
FodderCandidates(word) ==
    CASE word = W_race -> {<<"a","c","r","e">>, <<"r","a","c","e">>}
      [] word = W_go_on -> {<<"n","o"," ","g","o">>, <<"g","o"," ","o","n">>}
      [] word = W_sent -> {<<"t","a","l","e","s"," ","e","n","t","e","r","e","d">>,
                           <<"t","a","l","e","'","s"," ","e","n","t","e","r","e","d">>,
                           <<"s","e","n","t">>}

\* what setter.generate_wordplay_only does: it raises, or returns the wordplay data
WordplayOutcomes(word) ==
    {Raise("ValueError")}
    \cup {[kind |-> "wordplay_data",
           wordplay_parts |-> JDict([NoParts EXCEPT !.fodder = JStr(fodder),
                                                    !.indicator = JStr(<<"m","i","x","e","d">>)])]
          : fodder \in FodderCandidates(word)}

\* what setter.generate_surface_from_wordplay does: it raises, or returns the complete clue
SurfaceOutcomes(word, clue_type, wordplay_data) ==
    {Raise("ValueError"),
     [kind |-> "clue", type |-> JStr(clue_type), answer |-> JStr(upper(word)),
      clue |-> JStr(<<"M","i","x","e","d"," ","u","p">>), definition |-> JStr(<<"u","p">>),
      wordplay_parts |-> wordplay_data.wordplay_parts]}

\* what solver.solve_clue does: it raises, or returns the JSON of the response: a
\* solution with the answer, with another answer, with "answer": null or with no answer
SolverOutcomes(word) ==
    {Raise("ValueError"),
     [kind |-> "solution", answer |-> JStr(upper(word))],
     [kind |-> "solution", answer |-> JStr(<<"O","T","H","E","R">>)],
     [kind |-> "solution", answer |-> JNull],
     [kind |-> "solution", answer |-> JAbsent]}

\* what auditor.audit_clue does: it raises, or returns an AuditResult that passed, that
\* failed the direction check, or that failed a check the pipeline gives no feedback for
AuditVerdict(passed, direction_check) ==
    [kind |-> "AuditResult", passed |-> passed,
     direction_check |-> direction_check, direction_feedback |-> "direction",
     double_duty_check |-> TRUE, double_duty_feedback |-> "double duty",
     indicator_fairness_check |-> TRUE, indicator_fairness_feedback |-> "fairness"]
AuditOutcomes ==
    {Raise("RuntimeError"), AuditVerdict(TRUE, TRUE), AuditVerdict(FALSE, FALSE),
     AuditVerdict(FALSE, TRUE)}

\* a call the pipeline made of a collaborator: the feedback it passed, what came back
Called(stage, feedback, returned) ==
    [stage |-> stage, feedback |-> feedback, returned |-> returned]

\* the test as it would be if it let the pipeline start again at the limit
may_regenerate_at_the_limit(regeneration_attempts, max_regenerations) ==
    regeneration_attempts <= max_regenerations

\* the test that lets a failed audit start the pipeline again
may_regenerate(regeneration_attempts, max_regenerations) ==
    regeneration_attempts < max_regenerations

\* the locals of a call of process_single_clue_sync as its loop begins; frames holds the
\* audit result and the feedback local to each call that is waiting for this one to
\* return, calls the calls this one has made of its collaborators, runs the number of
\* calls of process_single_clue_sync so far
NewCall(call, regeneration_attempts, frames) ==
    [regeneration_attempts |-> regeneration_attempts,
     enumeration |-> IF ~Truthy(call.enumeration) THEN JStr(derived_enumeration(call.word))
                     ELSE call.enumeration,
     wordplay_attempt |-> 0, last_error |-> None, wordplay_data |-> None,
     clue_json |-> None, solution_json |-> None,
     referee_result |-> None, frames |-> frames, calls |-> <<>>,
     runs |-> regeneration_attempts + 1, returned |-> None]

InitPipeline ==
    /\ op = "process_single_clue_sync"
    /\ pc = "wordplay"
    /\ enchant_dict = NoDictionary
    /\ args \in [call : PipelineCalls, max_regenerations : 0..MaxRegenerations]
    /\ result = NewCall(args.call, 0, <<>>)

\* the call returns value, through every call that is waiting for it
PipelineReturn(calls, value) ==
    /\ pc' = "done"
    /\ result' = [result EXCEPT !.calls = calls, !.returned = value]
    /\ UNCHANGED <<op, enchant_dict, args>>

PipelineRaise(calls, exc) ==
    PipelineReturn(calls, ClueResultOfException(args.call.word, args.call.clue_type, exc,
                                                result.regeneration_attempts))

\* one turn of the wordplay loop: the setter proposes a candidate, the Mechanic validates
\* it; what follows the loop runs once the loop ends
GenerateWordplay ==
    /\ pc = "wordplay"
    /\ \E wordplay_data \in WordplayOutcomes(args.call.word) :
        LET word == args.call.word
            clue_type == args.call.clue_type
            retry_feedback == IF result.wordplay_attempt > 0 THEN result.last_error ELSE None
            calls == Append(result.calls, Called("generate_wordplay_only", retry_feedback,
                                                 wordplay_data))
            temp_clue == [type |-> JStr(clue_type), answer |-> JStr(upper(word)),
                          wordplay_parts |-> wordplay_data.wordplay_parts,
                          clue |-> JStr(<<"[","W","o","r","d","p","l","a","y","]">>)]
        IN
        \* the one value validate_clue_complete returns for the candidate, and the
        \* last_error built from it when it did not pass
        \E validated \in {IF wordplay_data.kind = "raise" THEN None
                          ELSE validate_clue_complete(enchant_dict, temp_clue,
                                                      result.enumeration)} :
        \E last_error \in {IF validated.kind = "tuple" /\ ~validated.all_valid
                           THEN mechanical_failure(temp_clue, result.enumeration,
                                                   validated.results)
                           ELSE None} :
            IF wordplay_data.kind = "raise" THEN PipelineRaise(calls, wordplay_data.exc)
            ELSE IF validated.kind = "raise" THEN PipelineRaise(calls, validated.exc)
            ELSE IF validated.all_valid
            THEN IF pre_surface_check(word, clue_type, wordplay_data.wordplay_parts)
                 THEN /\ pc' = "surface"
                      /\ result' = [result EXCEPT !.calls = calls,
                                                  !.wordplay_data = wordplay_data]
                      /\ UNCHANGED <<op, enchant_dict, args>>
                 ELSE PipelineReturn(calls,
                        ClueResult(word, clue_type, None, FALSE, None, None, None, FALSE,
                                   "Pre-surface check failed", result.regeneration_attempts,
                                   None))
            ELSE IF result.wordplay_attempt + 1 < max_wordplay_attempts
            THEN /\ pc' = "wordplay"
                 /\ result' = [result EXCEPT !.calls = calls,
                                             !.wordplay_data = wordplay_data,
                                             !.wordplay_attempt = @ + 1,
                                             !.last_error = last_error]
                 /\ UNCHANGED <<op, enchant_dict, args>>
            ELSE PipelineReturn(calls,
                   ClueResult(word, clue_type, None, FALSE, None, None, None, FALSE,
                              "Wordplay generation failed after 3 attempts",
                              result.regeneration_attempts, None))

\* step 1c: the surface reading of the validated wordplay
GenerateSurface ==
    /\ pc = "surface"
    /\ \E clue_json \in SurfaceOutcomes(args.call.word, args.call.clue_type,
                                        result.wordplay_data) :
        LET calls == Append(result.calls,
                            Called("generate_surface_from_wordplay", None, clue_json))
        IN  IF clue_json.kind = "raise" THEN PipelineRaise(calls, clue_json.exc)
            ELSE /\ pc' = "solve"
                 /\ result' = [result EXCEPT !.calls = calls, !.clue_json = clue_json]
                 /\ UNCHANGED <<op, enchant_dict, args>>

\* steps 2 and 3: the solver's answer and the referee's judgment of it
SolveClue ==
    /\ pc = "solve"
    /\ \E solution_json \in SolverOutcomes(args.call.word) :
        LET solved == Append(result.calls, Called("solve_clue", None, solution_json))
            referee_result == referee_with_validation(result.clue_json, solution_json)
            calls == Append(solved, Called("referee_with_validation", None, referee_result))
        IN  IF solution_json.kind = "raise" THEN PipelineRaise(solved, solution_json.exc)
            ELSE IF ~referee_result.passed
            THEN PipelineReturn(calls,
                   ClueResult(args.call.word, args.call.clue_type, result.clue_json, TRUE,
                              solution_json, referee_result, None, FALSE, "Referee judged",
                              result.regeneration_attempts, None))
            ELSE /\ pc' = "audit"
                 /\ result' = [result EXCEPT !.calls = calls,
                                             !.solution_json = solution_json,
                                             !.referee_result = referee_result]
                 /\ UNCHANGED <<op, enchant_dict, args>>

\* step 4: the audit; a failed audit starts the pipeline again while
\* regeneration_attempts < max_regenerations
AuditClueOfPipeline ==
    /\ pc = "audit"
    /\ \E audit \in AuditOutcomes :
        LET word == args.call.word
            clue_type == args.call.clue_type
            calls == Append(result.calls, Called("audit_clue", None, audit))
        IN  IF audit.kind = "raise" THEN PipelineRaise(calls, audit.exc)
            ELSE IF audit.passed
            THEN PipelineReturn(calls,
                   ClueResult(word, clue_type, result.clue_json, TRUE, result.solution_json,
                              result.referee_result, audit, TRUE, None,
                              result.regeneration_attempts, calculate_length(word)))
            ELSE IF may_regenerate(result.regeneration_attempts, args.max_regenerations)
            THEN /\ pc' = "wordplay"
                 /\ result' = NewCall([args.call EXCEPT !.enumeration = result.enumeration],
                                      result.regeneration_attempts + 1,
                                      Append(result.frames,
                                             [audit_result |-> audit,
                                              feedback |-> audit_feedback(audit)]))
                 /\ UNCHANGED <<op, enchant_dict, args>>
            ELSE PipelineReturn(calls,
                   ClueResult(word, clue_type, result.clue_json, TRUE, result.solution_json,
                              result.referee_result, audit, FALSE,
                              "Audit failed and max regenerations reached",
                              result.regeneration_attempts, None))

NextPipeline ==
    \/ GenerateWordplay
    \/ GenerateSurface
    \/ SolveClue
    \/ AuditClueOfPipeline

SpecPipeline == InitPipeline /\ [][NextPipeline]_vars

\* the same pipeline when every collaborator answers its call
FairSpecPipeline == SpecPipeline /\ WF_vars(NextPipeline)

-----------------------------------------------------------------------------
(* Properties of the pipeline                                               *)

\* the positions in the calls of this run at which a stage was called
CallsOf(stage) == {i \in DOMAIN result.calls : result.calls[i].stage = stage}

\* the clue the Mechanic validates for a candidate of the setter
TempClue(wordplay_data) ==
    [type |-> JStr(args.call.clue_type), answer |-> JStr(upper(args.call.word)),
     wordplay_parts |-> wordplay_data.wordplay_parts, clue |-> JStr(<<>>)]

\* the candidate passes validate_clue_complete under the enumeration of the run
PassesMechanically(wordplay_data) ==
    /\ wordplay_data.kind # "raise"
    /\ LET validated == validate_clue_complete(enchant_dict, TempClue(wordplay_data),
                                               result.enumeration)
       IN  validated.kind = "tuple" /\ validated.all_valid

\* the solver's answer is the target word, letter for letter
SolverFoundTheWord(solution_json) ==
    /\ solution_json.kind = "solution"
    /\ solution_json.answer.t = "str"
    /\ Len(solution_json.answer.v) > 0
    /\ SelectSeq(upper(solution_json.answer.v), LAMBDA c : c \in UpperSet)
         = SelectSeq(upper(args.call.word), LAMBDA c : c \in UpperSet)

\* C21: In process_single_clue_sync the stages run in a fixed, gated order: the surface
\* reading is generated only after a wordplay candidate has passed
\* validate_clue_complete, the solver is called only after the surface was generated,
\* the referee only after the solver, and the auditor only after the referee passed; no
\* later stage is ever invoked for a word whose earlier stage failed.
C21_StagesRunInGatedOrder ==
    op = "process_single_clue_sync" =>
        LET calls == result.calls
        IN  /\ \A i \in CallsOf("generate_surface_from_wordplay") :
                /\ i > 1
                /\ calls[i - 1].stage = "generate_wordplay_only"
                /\ PassesMechanically(calls[i - 1].returned)
            /\ \A i \in CallsOf("solve_clue") :
                /\ i > 1
                /\ calls[i - 1].stage = "generate_surface_from_wordplay"
                /\ calls[i - 1].returned.kind # "raise"
            /\ \A i \in CallsOf("referee_with_validation") :
                /\ i > 1
                /\ calls[i - 1].stage = "solve_clue"
                /\ calls[i - 1].returned.kind # "raise"
            /\ \A i \in CallsOf("audit_clue") :
                /\ i > 2
                /\ calls[i - 1].stage = "referee_with_validation"
                /\ SolverFoundTheWord(calls[i - 2].returned)
            \* a stage that failed is the last call of the run
            /\ \A i \in DOMAIN calls :
                (\/ calls[i].returned.kind = "raise"
                 \/ calls[i].stage = "referee_with_validation"
                      /\ ~SolverFoundTheWord(calls[i - 1].returned)) => i = Len(calls)

\* a clue passed every stage, in a run whose first candidate had failed validation
C21_Witness ==
    /\ op = "process_single_clue_sync"
    /\ pc = "done"
    /\ result.returned.passed
    /\ Len(result.calls) = 6
    /\ ~PassesMechanically(result.calls[1].returned)
    /\ result.calls[6].stage = "audit_clue"

\* the lines "name: message" of the checks a candidate failed
FailedChecksOf(wordplay_data) ==
    LET results == validate_clue_complete(enchant_dict, TempClue(wordplay_data),
                                          result.enumeration).results
    IN  {failed_line(TempClue(wordplay_data), result.enumeration, name, results[name]) :
           name \in {n \in {"length", "wordplay"} :
                       results[n].kind = "ValidationResult" /\ ~results[n].is_valid}}

\* C22: Within one pipeline attempt the setter's generate_wordplay_only is called at
\* most 3 times and stops at the first candidate that passes mechanical validation; the
\* first call gets no feedback and each retry gets the previous candidate's validation
\* failure message; if all 3 candidates fail, a failed ClueResult with
\* mechanical_valid = false is returned without calling surface generation, solver,
\* referee or auditor.
C22_WordplayRetriedWithFeedback ==
    op = "process_single_clue_sync" =>
        LET calls == result.calls
            wordplay == CallsOf("generate_wordplay_only")
        IN  /\ Cardinality(wordplay) <= 3
            /\ \A i \in wordplay :
                /\ i = 1 => calls[i].feedback = None
                /\ i > 1 =>
                    /\ calls[i - 1].stage = "generate_wordplay_only"
                    /\ ~PassesMechanically(calls[i - 1].returned)
                    /\ calls[i].feedback.kind = "last_error"
                    /\ {calls[i].feedback.failed_checks[k] :
                          k \in DOMAIN calls[i].feedback.failed_checks}
                         = FailedChecksOf(calls[i - 1].returned)
            /\ (/\ Cardinality(wordplay) = 3
                /\ \A i \in wordplay : /\ calls[i].returned.kind # "raise"
                                       /\ ~PassesMechanically(calls[i].returned))
               => /\ pc = "done"
                  /\ result.returned.kind = "ClueResult"
                  /\ ~result.returned.passed
                  /\ ~result.returned.mechanical_valid
                  /\ Len(calls) = 3

\* three candidates failed, the second for another reason than the first, and the run
\* returned its failure after the third
C22_Witness ==
    /\ op = "process_single_clue_sync"
    /\ pc = "done"
    /\ Len(result.calls) = 3
    /\ \A i \in 1..3 : /\ result.calls[i].returned.kind # "raise"
                       /\ ~PassesMechanically(result.calls[i].returned)
    /\ result.calls[2].feedback # result.calls[3].feedback
    /\ ~result.returned.mechanical_valid

\* C23: process_single_clue_sync always terminates with a ClueResult: a regeneration is
\* started only after an audit failure (never after a mechanical or referee failure) and
\* only while regeneration_attempts < max_regenerations, so the whole pipeline runs at
\* most max_regenerations + 1 times for a word and the returned regeneration_count never
\* exceeds max_regenerations.
C23_PipelineTerminatesWithinItsRegenerations ==
    /\ <>(pc = "done" /\ result.returned.kind = "ClueResult")
    /\ [](/\ result.runs <= args.max_regenerations + 1
          /\ Len(result.frames) = result.runs - 1
          /\ \A i \in DOMAIN result.frames :
                /\ result.frames[i].audit_result.kind = "AuditResult"
                /\ ~result.frames[i].audit_result.passed
          /\ pc = "done" => result.returned.regeneration_count <= args.max_regenerations)
    /\ [][result'.runs # result.runs =>
            /\ pc = "audit"
            /\ result.regeneration_attempts < args.max_regenerations
            /\ result'.runs = result.runs + 1]_vars

\* the pipeline ran max_regenerations + 1 times and returned the failure of its last audit
C23_Witness ==
    /\ op = "process_single_clue_sync"
    /\ pc = "done"
    /\ args.max_regenerations > 0
    /\ result.runs = args.max_regenerations + 1
    /\ result.returned.regeneration_count = args.max_regenerations
    /\ result.returned.audit_result.kind = "AuditResult"
    /\ ~result.returned.passed

\* C24: When the audit fails and a regeneration is attempted, the clue is regenerated
\* with feedback: the failure feedback collected from the failed audit checks is supplied
\* to the setter when it generates the wordplay of the regenerated clue.
C24_RegenerationSuppliesAuditFeedback ==
    (/\ op = "process_single_clue_sync"
     /\ result.runs > 1
     /\ Len(result.calls) > 0)
    => /\ result.calls[1].stage = "generate_wordplay_only"
       /\ result.calls[1].feedback # None
       /\ \A k \in DOMAIN result.frames[Len(result.frames)].feedback :
             result.frames[Len(result.frames)].feedback[k] \in
                {result.calls[1].feedback.failed_checks[j].message :
                   j \in DOMAIN result.calls[1].feedback.failed_checks}

\* C28: Every ClueResult returned by process_single_clue_sync with passed = true has
\* mechanical_valid = true, a referee result that passed and an audit result that
\* passed; no result is marked passed when any of the three stages failed or was skipped.
C28_PassedMeansEveryStagePassed ==
    (/\ op = "process_single_clue_sync"
     /\ pc = "done"
     /\ result.returned.passed)
    => /\ result.returned.mechanical_valid
       /\ result.returned.referee_result.kind = "RefereeResult"
       /\ result.returned.referee_result.passed
       /\ result.returned.audit_result.kind = "AuditResult"
       /\ result.returned.audit_result.passed
       /\ \E i \in CallsOf("generate_wordplay_only") :
             PassesMechanically(result.calls[i].returned)
       /\ \E i \in CallsOf("solve_clue") : SolverFoundTheWord(result.calls[i].returned)
       /\ \E i \in CallsOf("audit_clue") : result.calls[i].returned = AuditVerdict(TRUE, TRUE)

\* a regenerated clue passed
C28_Witness ==
    /\ op = "process_single_clue_sync"
    /\ pc = "done"
    /\ result.returned.passed
    /\ result.returned.regeneration_count = 1
    /\ result.returned.audit_result.passed

\* C29: When no enumeration is supplied, the enumeration that process_single_clue_sync
\* derives from the target word agrees with the letter-count check: for every target
\* word, including multi-word and hyphenated answers, validate_length(word, derived
\* enumeration) is valid, so a mechanically correct wordplay is never rejected because
\* of the derived enumeration.
C29_DerivedEnumerationAgreesWithLength ==
    (/\ op = "process_single_clue_sync"
     /\ ~Truthy(args.call.enumeration))
    => /\ validate_length(upper(args.call.word), result.enumeration).is_valid
       /\ \A i \in CallsOf("generate_wordplay_only") :
            (/\ result.calls[i].returned.kind # "raise"
             /\ validate_clue(enchant_dict, TempClue(result.calls[i].returned)).is_valid)
            => PassesMechanically(result.calls[i].returned)

-----------------------------------------------------------------------------
(* src/word_pool_loader.py: WordPoolLoader, the pool of seed words and the  *)
(* words already handed out                                                 *)

\* the number of calls made of one loader
MaxCalls == 4

PoolEntry(word, type) == [word |-> word, type |-> type, usage_count |-> 0]

\* the pools _load_all_word_pools may have built: ACE and RACE for anagrams with ACE
\* again for charades, ACE and CARE of different types, RACE alone
WordPools ==
    {<<PoolEntry(<<"A","C","E">>, "Anagram"), PoolEntry(<<"R","A","C","E">>, "Anagram"),
       PoolEntry(<<"A","C","E">>, "Charade")>>,
     <<PoolEntry(<<"A","C","E">>, "Anagram"), PoolEntry(<<"C","A","R","E">>, "Charade")>>,
     <<PoolEntry(<<"R","A","C","E">>, "Charade")>>}

SeedTypes == {[kind |-> "str", value |-> "Anagram"], [kind |-> "str", value |-> "Charade"]}

\* the entries as they would be picked if the words handed out were not looked at
available_words_ignoring_used(word_pool, used_words, clue_type, avoid_duplicates) ==
    {i \in DOMAIN word_pool : clue_type # None => word_pool[i].type = clue_type.value}

\* the entries a call may pick from, with every type when clue_type is None
available_words(word_pool, used_words, clue_type, avoid_duplicates) ==
    {i \in DOMAIN word_pool :
        /\ clue_type # None => word_pool[i].type = clue_type.value
        /\ ~avoid_duplicates \/ word_pool[i].word \notin used_words}

\* the available entries of the least usage_count
least_used(word_pool, available) ==
    {i \in available : \A j \in available : word_pool[i].usage_count <= word_pool[j].usage_count}

\* WordPoolLoader.__init__ over a loaded pool
WordPoolLoader(pool) ==
    [word_pool |-> pool, used_words |-> {},
     usage_counts |-> [w \in {pool[i].word : i \in DOMAIN pool} |-> 0]]

\* get_random_seed (clue_type None) and get_specific_type_seed: what a call may return
\* and the loader it leaves, None with the loader untouched when nothing is available
get_seed(loader, clue_type, avoid_duplicates) ==
    LET available == available_words(loader.word_pool, loader.used_words, clue_type,
                                     avoid_duplicates)
    IN  IF available = {}
        THEN {[returned |-> None, loader |-> loader]}
        ELSE {[returned |-> [word |-> loader.word_pool[selected].word,
                             type |-> IF clue_type = None
                                      THEN loader.word_pool[selected].type
                                      ELSE clue_type.value],
               loader |-> [loader EXCEPT
                             !.word_pool[selected].usage_count = @ + 1,
                             !.used_words = @ \cup {loader.word_pool[selected].word},
                             !.usage_counts[loader.word_pool[selected].word] = @ + 1]]
              : selected \in least_used(loader.word_pool, available)}

\* reset_used
reset_used(loader) == [loader EXCEPT !.used_words = {}]

InitWordPool ==
    /\ op = "WordPoolLoader"
    /\ pc = "ready"
    /\ enchant_dict = NoDictionary
    /\ args = [method |-> "__init__", clue_type |-> None, avoid_duplicates |-> TRUE]
    /\ \E pool \in WordPools :
          result = [loader |-> WordPoolLoader(pool), returned |-> None,
                    used_before |-> {}, since_reset |-> <<>>, calls |-> 0]

\* a call of one of the two seed methods of the loader
SeedCall(method, clue_type, avoid_duplicates) ==
    \E out \in get_seed(result.loader, clue_type, avoid_duplicates) :
        /\ args' = [method |-> method, clue_type |-> clue_type,
                    avoid_duplicates |-> avoid_duplicates]
        /\ result' = [result EXCEPT
                        !.loader = out.loader,
                        !.returned = out.returned,
                        !.used_before = result.loader.used_words,
                        !.since_reset =
                            IF out.returned = None THEN @
                            ELSE Append(@, [word |-> out.returned.word,
                                            avoid_duplicates |-> avoid_duplicates]),
                        !.calls = @ + 1]
        /\ UNCHANGED <<pc, op, enchant_dict>>

GetRandomSeed ==
    /\ op = "WordPoolLoader"
    /\ result.calls < MaxCalls
    /\ \E avoid_duplicates \in BOOLEAN :
          SeedCall("get_random_seed", None, avoid_duplicates)

GetSpecificTypeSeed ==
    /\ op = "WordPoolLoader"
    /\ result.calls < MaxCalls
    /\ \E clue_type \in SeedTypes, avoid_duplicates \in BOOLEAN :
          SeedCall("get_specific_type_seed", clue_type, avoid_duplicates)

ResetUsed ==
    /\ op = "WordPoolLoader"
    /\ result.calls < MaxCalls
    /\ args' = [method |-> "reset_used", clue_type |-> None, avoid_duplicates |-> TRUE]
    /\ result' = [result EXCEPT !.loader = reset_used(@), !.returned = None,
                                !.used_before = result.loader.used_words,
                                !.since_reset = <<>>, !.calls = @ + 1]
    /\ UNCHANGED <<pc, op, enchant_dict>>

NextWordPool ==
    \/ GetRandomSeed
    \/ GetSpecificTypeSeed
    \/ ResetUsed

SpecWordPool == InitWordPool /\ [][NextWordPool]_vars

-----------------------------------------------------------------------------
(* Properties of the word pool                                              *)

PoolWords == {result.loader.word_pool[i].word : i \in DOMAIN result.loader.word_pool}

\* C25: With avoid_duplicates=True, WordPoolLoader.get_random_seed and
\* get_specific_type_seed never return a word that is already in used_words: between
\* two calls of reset_used no word is returned twice, every returned word is added to
\* used_words, and once every word of the pool has been returned get_random_seed
\* returns None; reset_used empties used_words.
C25_NoSeedIsHandedOutTwice ==
    op = "WordPoolLoader" =>
        /\ (args.avoid_duplicates /\ result.returned # None)
              => result.returned.word \notin result.used_before
        /\ \A i, j \in DOMAIN result.since_reset :
              (i < j /\ result.since_reset[j].avoid_duplicates)
                 => result.since_reset[i].word # result.since_reset[j].word
        /\ \A i \in DOMAIN result.since_reset :
              result.since_reset[i].word \in result.loader.used_words
        /\ (/\ args.method = "get_random_seed"
            /\ args.avoid_duplicates
            /\ PoolWords \subseteq result.used_before) => result.returned = None
        /\ args.method = "reset_used" => result.loader.used_words = {}

\* every word of a pool of two has been handed out, and the next call got None
C25_Witness ==
    /\ op = "WordPoolLoader"
    /\ args.method = "get_random_seed"
    /\ args.avoid_duplicates
    /\ Len(result.since_reset) = Cardinality(PoolWords)
    /\ Cardinality(PoolWords) = 2
    /\ result.used_before = PoolWords
    /\ result.returned = None

-----------------------------------------------------------------------------
(* src/word_selector.py: WordSelector, the built-in source of words         *)

\* the number of calls made of one selector
MaxSelections == 3

W_STAR == <<"S","T","A","R">>
W_EARTH == <<"E","A","R","T","H">>
W_DEALING == <<"D","E","A","L","I","N","G">>
W_DETAILED == <<"D","E","T","A","I","L","E","D">>
W_PARTRIDGE == <<"P","A","R","T","R","I","D","G","E">>

\* word pools _load_word_pool may have built; the built-in list names DEALING twice
SelectorPools ==
    {<<W_STAR, W_EARTH>>, <<W_DEALING, W_DEALING>>, <<W_DETAILED, W_PARTRIDGE>>}

SelectCounts == {0, 1, 2}

\* the clue types random.choice(suggestions) may return for a word
suggest_clue_type(word) ==
    LET vowel_count == Cardinality({i \in DOMAIN word : word[i] \in {"A","E","I","O","U"}})
        length == Len(word)
        always == {"Double Definition", "Homophone", "&lit"}
    IN  IF length < 5
        THEN {"Hidden Word", "Reversal", "Charade", "Anagram"} \cup always
        ELSE IF vowel_count > 3
        THEN {"Anagram", "Hidden Word", "Charade"} \cup always
        ELSE IF 5 <= length /\ length <= 8
        THEN {"Anagram", "Container", "Charade", "Hidden Word", "Reversal"} \cup always
        ELSE {"Hidden Word", "Charade", "Anagram", "Container"} \cup always

\* the positions of the pool as they would be offered if used_words were not looked at
selectable_ignoring_used(word_pool, used_words, avoid_recent) == DOMAIN word_pool

\* the positions of the pool whose words a call may sample
selectable(word_pool, used_words, avoid_recent) ==
    {i \in DOMAIN word_pool : ~avoid_recent \/ word_pool[i] \notin used_words}

\* random.sample(population, k): the sequences of k different positions
sample(population, k) ==
    {s \in [1..k -> population] : \A i, j \in 1..k : i # j => s[i] # s[j]}

\* WordSelector.__init__ over a loaded pool
WordSelector(pool) == [word_pool |-> pool, used_words |-> {}]

\* select_words: the pairs a call may return and the selector it leaves; cleared tells
\* that the call found fewer words than count and reset used_words
select_words(selector, count, avoid_recent) ==
    LET unused == selectable(selector.word_pool, selector.used_words, avoid_recent)
        short == Cardinality(unused) < count
        population == IF short THEN DOMAIN selector.word_pool ELSE unused
        kept == IF short THEN {} ELSE selector.used_words
        typings(selected) ==
            {types \in [DOMAIN selected ->
                          UNION {suggest_clue_type(w) : w \in Range(selector.word_pool)}] :
                \A i \in DOMAIN selected :
                    types[i] \in suggest_clue_type(selector.word_pool[selected[i]])}
    IN  UNION {
          {[returned |-> [i \in DOMAIN selected |->
                            [word |-> selector.word_pool[selected[i]], type |-> types[i]]],
            selector |-> [selector EXCEPT
                            !.used_words = kept \cup {selector.word_pool[selected[i]] :
                                                        i \in DOMAIN selected}],
            cleared |-> short] : types \in typings(selected)}
          : selected \in sample(population, Min(count, Cardinality(population)))}

\* reset_used_words
reset_used_words(selector) == [selector EXCEPT !.used_words = {}]

InitSelector ==
    /\ op = "WordSelector"
    /\ pc = "ready"
    /\ enchant_dict = NoDictionary
    /\ args = [method |-> "__init__", count |-> 0, avoid_recent |-> TRUE]
    /\ \E pool \in SelectorPools :
          result = [selector |-> WordSelector(pool), returned |-> <<>>,
                    cleared |-> FALSE, since_reset |-> {}, since_clear |-> {},
                    before_reset |-> {}, before_clear |-> {}, calls |-> 0]

SelectWords ==
    /\ op = "WordSelector"
    /\ result.calls < MaxSelections
    /\ \E count \in SelectCounts, avoid_recent \in BOOLEAN :
        \E out \in select_words(result.selector, count, avoid_recent) :
            LET words == {out.returned[i].word : i \in DOMAIN out.returned}
            IN  /\ args' = [method |-> "select_words", count |-> count,
                            avoid_recent |-> avoid_recent]
                /\ result' = [result EXCEPT
                      !.selector = out.selector,
                      !.returned = out.returned,
                      !.cleared = out.cleared,
                      !.before_reset = result.since_reset,
                      !.before_clear = IF out.cleared THEN {} ELSE result.since_clear,
                      !.since_reset = @ \cup words,
                      !.since_clear = (IF out.cleared THEN {} ELSE @) \cup words,
                      !.calls = @ + 1]
    /\ UNCHANGED <<pc, op, enchant_dict>>

ResetUsedWords ==
    /\ op = "WordSelector"
    /\ result.calls < MaxSelections
    /\ args' = [method |-> "reset_used_words", count |-> 0, avoid_recent |-> TRUE]
    /\ result' = [result EXCEPT !.selector = reset_used_words(@), !.returned = <<>>,
                                !.cleared = FALSE,
                                !.before_reset = {}, !.before_clear = {},
                                !.since_reset = {}, !.since_clear = {},
                                !.calls = @ + 1]
    /\ UNCHANGED <<pc, op, enchant_dict>>

NextSelector ==
    \/ SelectWords
    \/ ResetUsedWords

SpecSelector == InitSelector /\ [][NextSelector]_vars

-----------------------------------------------------------------------------
(* Properties of the word selector                                          *)

ReturnedWords == {result.returned[i].word : i \in DOMAIN result.returned}

\* C26 as stated: with avoid_recent=True, a word returned by one select_words call is
\* not returned by any later select_words call unless reset_used_words was called in
\* between.
C26_NoWordRepeatsWithoutReset ==
    (op = "WordSelector" /\ args.method = "select_words" /\ args.avoid_recent)
        => ReturnedWords \cap result.before_reset = {}

\* C26 as amended: with avoid_recent=True, a word returned by one select_words call is
\* not returned by a later select_words call unless used_words was cleared in between,
\* by reset_used_words or by a select_words call, the later one included, that found
\* fewer available words than count.
C26_NoWordRepeatsWhileUsedWordsIsKept ==
    (op = "WordSelector" /\ args.method = "select_words" /\ args.avoid_recent
        /\ ~result.cleared)
        => ReturnedWords \cap result.before_clear = {}

\* a second avoiding call returned words beside those of the first, used_words kept
C26_Witness ==
    /\ op = "WordSelector"
    /\ args.method = "select_words"
    /\ args.avoid_recent
    /\ ~result.cleared
    /\ result.before_clear # {}
    /\ ReturnedWords # {}
    /\ result.selector.used_words = Range(result.selector.word_pool)
    /\ Cardinality(result.selector.used_words) = 2

-----------------------------------------------------------------------------
(* src/main.py: factory_run, the loop that asks for batches of words and    *)
(* runs the pipeline of each until target_count clues have passed           *)

\* the number of batches one run is followed for
MaxBatches == 2

FactoryTargets == {0, 1, 2}
FactoryBatchSizes == {1, 2}
\* required_types: no type required (None or an empty list), or a list of types
FactoryRequiredTypes ==
    {<<>>, <<[kind |-> "str", value |-> "Charade"]>>,
     <<[kind |-> "str", value |-> "Anagram"], [kind |-> "str", value |-> "Charade"]>>}
FactorySelectorPools == {<<W_DETAILED>>}

\* what process_single_clue_sync may return to the factory: a clue that passed every
\* stage, or the result of its except clause
FactoryPipelineResults(word, clue_type) ==
    {ClueResult(word, clue_type, [kind |-> "clue", answer |-> JStr(upper(word))], TRUE,
                [kind |-> "solution", answer |-> JStr(upper(word))],
                referee(upper(word), upper(word)), AuditVerdict(TRUE, TRUE), TRUE, None, 0,
                calculate_length(word)),
     ClueResultOfException(word, clue_type, "ValueError", 0)}

\* what explainer.generate_explanation leaves in explanation_data: a dictionary, or None
\* when it raised
ExplanationOutcomes == {[kind |-> "explanation"], None}

\* the test of the while loop and of the two breaks, as it would be with > for >=
target_reached_late(passed_clues, target_count) == Len(passed_clues) > target_count

\* len(passed_clues) >= target_count
target_reached(passed_clues, target_count) == Len(passed_clues) >= target_count

\* passed_clues[:target_count] for a target_count that is not negative
trimmed(passed_clues, target_count) ==
    SubSeq(passed_clues, 1, Min(target_count, Len(passed_clues)))

\* types_cycle[:current_batch_size], a None for each seed when no type is required
types_cycle(required_types, current_batch_size) ==
    IF required_types = <<>>
    THEN [i \in 1..current_batch_size |-> None]
    ELSE [i \in 1..current_batch_size |->
            required_types[((i - 1) % Len(required_types)) + 1]]

\* the state as the loop is first reached. The selector is built in every run: without
\* use_seed_words, when WordPoolLoader() raises for want of a pool file, and also when it
\* loaded one, for stats['total_words'] then raises the KeyError that the except clause
\* answers with use_seed_words = False, leaving word_loader bound
InitFactory ==
    /\ op = "factory_run"
    /\ pc = "while"
    /\ enchant_dict = NoDictionary
    /\ args \in [target_count : FactoryTargets, batch_size : FactoryBatchSizes,
                 required_types : FactoryRequiredTypes]
    /\ \E word_loader \in {None} \cup {WordPoolLoader(pool) : pool \in WordPools} :
       \E word_selector \in {WordSelector(pool) : pool \in FactorySelectorPools} :
          result = [word_loader |-> word_loader,
                    word_selector |-> word_selector,
                    passed_clues |-> <<>>, all_attempts |-> <<>>, batch_num |-> 0,
                    types_left |-> <<>>, word_type_pairs |-> <<>>, batch_results |-> <<>>,
                    calls_past_target |-> 0, output_data |-> None, returned |-> None]

\* the test of the while loop and, for a batch, the words the selector gives
BeginBatch ==
    /\ op = "factory_run"
    /\ pc = "while"
    /\ IF target_reached(result.passed_clues, args.target_count)
       THEN /\ pc' = "finish"
            /\ UNCHANGED result
       ELSE /\ result.batch_num < MaxBatches
            /\ LET remaining == args.target_count - Len(result.passed_clues)
                   current_batch_size == Min(args.batch_size, remaining * 2)
               IN  IF result.word_loader # None
                   THEN /\ pc' = "select"
                        /\ result' = [result EXCEPT
                              !.batch_num = @ + 1,
                              !.types_left = types_cycle(args.required_types,
                                                         current_batch_size),
                              !.word_type_pairs = <<>>, !.batch_results = <<>>]
                   ELSE \E out \in select_words(result.word_selector, current_batch_size,
                                                TRUE) :
                           /\ pc' = IF out.returned = <<>> THEN "finish" ELSE "process"
                           /\ result' = [result EXCEPT
                                 !.batch_num = @ + 1,
                                 !.word_selector = out.selector,
                                 !.word_type_pairs = out.returned, !.batch_results = <<>>]
    /\ UNCHANGED <<op, enchant_dict, args>>

\* one turn of the loop that asks the loader for a seed, resetting it once when it has none
SelectSeed ==
    /\ op = "factory_run"
    /\ pc = "select"
    /\ result.types_left # <<>>
    /\ \E first \in get_seed(result.word_loader, Head(result.types_left), TRUE) :
       \E second \in get_seed(reset_used(result.word_loader), Head(result.types_left), TRUE) :
          LET out == IF first.returned # None THEN first ELSE second
              pairs == IF out.returned # None
                       THEN Append(result.word_type_pairs, out.returned)
                       ELSE result.word_type_pairs
          IN  /\ result' = [result EXCEPT !.word_loader = out.loader,
                                          !.types_left = Tail(@),
                                          !.word_type_pairs = pairs]
              /\ pc' = IF Tail(result.types_left) # <<>> THEN "select"
                       ELSE IF pairs = <<>> THEN "finish" ELSE "process"
    /\ UNCHANGED <<op, enchant_dict, args>>

\* one turn of the loop over the batch: the pipeline of the next word, and after the last
\* word or the break the end of the batch
ProcessClue ==
    /\ op = "factory_run"
    /\ pc = "process"
    /\ LET pair == result.word_type_pairs[Len(result.batch_results) + 1]
       IN  \E r \in FactoryPipelineResults(pair.word, pair.type) :
             LET passed_clues == IF r.passed THEN Append(result.passed_clues, r)
                                 ELSE result.passed_clues
                 break == r.passed /\ target_reached(passed_clues, args.target_count)
                 last == Len(result.batch_results) + 1 = Len(result.word_type_pairs)
             IN  /\ result' = [result EXCEPT
                       !.batch_results = Append(@, r),
                       !.all_attempts = Append(@, r),
                       !.passed_clues = passed_clues,
                       !.calls_past_target =
                           IF Len(result.passed_clues) >= args.target_count
                           THEN @ + 1 ELSE @]
                 /\ pc' = IF break \/ last THEN "while" ELSE "process"
    /\ UNCHANGED <<op, enchant_dict, args>>

\* after the loop: the trim, the explanations, the report and the output file
FinishFactory ==
    /\ op = "factory_run"
    /\ pc = "finish"
    /\ LET kept == trimmed(result.passed_clues, args.target_count)
       IN  \E explanations \in [DOMAIN kept -> ExplanationOutcomes] :
             LET explained == [i \in DOMAIN kept |->
                                 [word |-> kept[i].word, passed |-> kept[i].passed,
                                  result |-> kept[i],
                                  explanation_data |-> explanations[i]]]
             IN  IF result.all_attempts = <<>> \/ kept = <<>>
                 THEN result' = [result EXCEPT !.passed_clues = kept,
                                               !.returned = Raise("ZeroDivisionError")]
                 ELSE result' = [result EXCEPT
                         !.passed_clues = kept,
                         !.output_data = [target_count |-> args.target_count,
                                          total_attempts |-> Len(result.all_attempts),
                                          batches_processed |-> result.batch_num,
                                          clues |-> explained],
                         !.returned = [kind |-> "list", clues |-> explained]]
    /\ pc' = "done"
    /\ UNCHANGED <<op, enchant_dict, args>>

NextFactory ==
    \/ BeginBatch
    \/ SelectSeed
    \/ ProcessClue
    \/ FinishFactory

SpecFactory == InitFactory /\ [][NextFactory]_vars

-----------------------------------------------------------------------------
(* Properties of the factory                                                *)

\* C27: factory_run collects only ClueResults with passed = true, returns at most
\* target_count of them, and stops invoking the clue pipeline as soon as target_count
\* passed clues have been collected, also in the middle of a batch.
C27_FactoryCollectsPassedCluesUpToTheTarget ==
    op = "factory_run" =>
        /\ \A i \in DOMAIN result.passed_clues : result.passed_clues[i].passed
        /\ result.calls_past_target = 0
        /\ (pc = "done" /\ result.returned.kind = "list") =>
              /\ Len(result.returned.clues) <= args.target_count
              /\ \A i \in DOMAIN result.returned.clues : result.returned.clues[i].passed

\* a run that returned its two clues after a failed attempt and left a word of the last
\* batch unprocessed
C27_Witness ==
    /\ op = "factory_run"
    /\ pc = "done"
    /\ result.returned.kind = "list"
    /\ args.target_count = 2
    /\ Len(result.returned.clues) = 2
    /\ \E i \in DOMAIN result.all_attempts : ~result.all_attempts[i].passed
    /\ Len(result.batch_results) < Len(result.word_type_pairs)

-----------------------------------------------------------------------------
(* One call of a Mechanic validator or of an Auditor method; the batch, whose *)
(* variables hold one value for each thread, is SpecBatch                    *)

Init == InitMechanic \/ InitAuditor \/ InitChecks

Next == NextMechanic \/ NextAuditor \/ NextChecks

Spec == Init /\ [][Next]_vars

=============================================================================
